---- MODULE Spec2Model ----
(***************************************************************************)
(* CampusPath: the piecewise-affine pixel<->GPS mapper                     *)
(* (app/gps_to_pixel/piecewise_affine_inverse.py, warp_pixel_to_gps.py,    *)
(* app/app.py) and the route / landmark / instruction extractor            *)
(* (app/generate_directions_with_feet.py and its campus_nav/ twin).        *)
(*                                                                         *)
(* Numbers.  Pixel coordinates are integers.  GPS coordinates are integers *)
(* in micro-degrees (1e-6 degree), so a determinant of GPS differences is  *)
(* in units of 1e-12 degree^2.  Values the code computes by division are   *)
(* kept as exact fractions (numerators over a common positive              *)
(* denominator): floating-point rounding of numpy is not modelled, every   *)
(* comparison of the code is made on the exact values.                     *)
(***************************************************************************)
EXTENDS Integers, Sequences, FiniteSets, TLC

VARIABLES
    pixel_pts,      \* mapper.pixel_pts : sequence of <<x, y>>
    gps_pts,        \* mapper.gps_pts   : sequence of <<lat, lon>>
    triangles,      \* mapper.triangles : sequence of <<i0, i1, i2>> (simplices)
    affines,        \* mapper.affines   : sequence of [verts, A, b, den]
    gps_bboxes,     \* mapper._gps_bboxes : sequence of <<min_lat, max_lat, min_lon, max_lon>>
    bcoords,        \* building coordinate table: sequence of [name, xy] (dict order)
    world,          \* what load_data() reads: [nodes, edges, b2n]
    call,           \* the last operation performed: its name, arguments and result
    threads,        \* queries in progress at the same time: one record per thread
    server,         \* the web process: the route request being handled and its log
    session,        \* the client's Flask session: session.get("gps")
    overlay_file    \* what route_overlay.png on disk depicts

vars == <<pixel_pts, gps_pts, triangles, affines, gps_bboxes, bcoords, world, call,
          threads, server, session, overlay_file>>

mapperVars == <<pixel_pts, gps_pts, triangles, affines, gps_bboxes>>

webVars == <<session, overlay_file>>

procVars == <<threads, server, session, overlay_file>>

----------------------------------------------------------------------------
(* Python's None and a present value. *)
None == [isNone |-> TRUE, v |-> <<>>]

Some(v) == [isNone |-> FALSE, v |-> v]

NoCall == [fn |-> "init"]

(* No query threads, and the web process before its first request. *)
NoThreads == <<>>

(* A session without a "gps" key; no overlay written yet. *)
NoSession == [gps |-> None]

NoFile == None

ServerIdle == [pc |-> "idle", start |-> "", end |-> "", error |-> "", loads |-> 0, events |-> <<>>]

Abs(n) == IF n < 0 THEN -n ELSE n

Min3(a, b, c) == IF a <= b /\ a <= c THEN a ELSE IF b <= c THEN b ELSE c

Max3(a, b, c) == IF a >= b /\ a >= c THEN a ELSE IF b >= c THEN b ELSE c

SetMax(S) == CHOOSE m \in S : \A n \in S : n <= m

SetMin(S) == CHOOSE m \in S : \A n \in S : m <= n

(* floor(n / d) for d > 0 (TLA+ \div already rounds toward minus infinity). *)
FloorDiv(n, d) == n \div d

(* Python 3 round(n / d) for d > 0: to the nearest integer, ties to even. *)
RoundHalfEven(n, d) ==
    LET q == FloorDiv(n, d)
        r == n - q * d
    IN  IF 2 * r < d THEN q
        ELSE IF 2 * r > d THEN q + 1
        ELSE IF q % 2 = 0 THEN q ELSE q + 1

----------------------------------------------------------------------------
(* Bounds of the model. *)

(* A calibration GPS point is off its surveyed position by at most this    *)
(* many micro-degrees per coordinate.                                      *)
GpsErr == 1

(* Spacing of the pixel queries. *)
QStep == 5

(* GPS queries are multiples of 1/QDen micro-degree. *)
QDen == 2

(* abs(det) < 1e-12 degree^2, in micro-degree^2. *)
DetEps == 1

(* A barycentric weight w fails the test when w < -1e-9, i.e. w * 10^9 < -1. *)
BaryEpsInv == 1000000000

----------------------------------------------------------------------------
(* Calibration sets: what load_calibration() can hand the constructor.     *)
(* Each base pairs pixel points with their surveyed GPS positions (an      *)
(* affine georeference, latitude growing as pixel y shrinks): a convex     *)
(* quadrilateral, a quadrilateral with one corner close to the opposite    *)
(* diagonal, and a triangle with an interior point.                        *)
CalibrationBases ==
    { [pix |-> << <<0, 0>>, <<20, 0>>, <<0, 20>>, <<20, 10>> >>,
       gps |-> << <<2, 0>>, <<2, 2>>,  <<0, 0>>,  <<1, 2>> >>],
      [pix |-> << <<0, 0>>, <<30, 0>>, <<0, 30>>, <<20, 20>> >>,
       gps |-> << <<3, 0>>, <<3, 3>>,  <<0, 0>>,  <<1, 2>> >>],
      [pix |-> << <<0, 0>>, <<30, 0>>, <<0, 30>>, <<10, 10>> >>,
       gps |-> << <<3, 0>>, <<3, 3>>,  <<0, 0>>,  <<2, 1>> >>] }

ErrRange == (0 - GpsErr)..GpsErr

(* A base with the GPS reading of one calibration point displaced. *)
Displace(base, k, e) ==
    [i \in 1..Len(base.gps) |->
        IF i = k THEN <<base.gps[i][1] + e[1], base.gps[i][2] + e[2]>>
        ELSE base.gps[i]]

----------------------------------------------------------------------------
(* scipy.spatial.Delaunay(pixel_pts).simplices *)

(* Twice the signed area of the pixel triangle a, b, c. *)
Orient(a, b, c) ==
    (b[1] - a[1]) * (c[2] - a[2]) - (b[2] - a[2]) * (c[1] - a[1])

(* d strictly inside the circle through a, b, c (any orientation). *)
InCircle(a, b, c, d) ==
    LET ax == a[1] - d[1]   ay == a[2] - d[2]
        bx == b[1] - d[1]   by == b[2] - d[2]
        cx == c[1] - d[1]   cy == c[2] - d[2]
        det == (ax * ax + ay * ay) * (bx * cy - cx * by)
             - (bx * bx + by * by) * (ax * cy - cx * ay)
             + (cx * cx + cy * cy) * (ax * by - bx * ay)
    IN  IF Orient(a, b, c) > 0 THEN det > 0 ELSE det < 0

(* The simplices: the triples with a non-empty triangle whose circumcircle *)
(* holds no other point (unique when no four points are co-circular).      *)
Simplices(pts) ==
    { t \in (1..Len(pts)) \X (1..Len(pts)) \X (1..Len(pts)) :
        /\ t[1] < t[2] /\ t[2] < t[3]
        /\ Orient(pts[t[1]], pts[t[2]], pts[t[3]]) # 0
        /\ \A l \in 1..Len(pts) :
              l \in {t[1], t[2], t[3]}
              \/ ~InCircle(pts[t[1]], pts[t[2]], pts[t[3]], pts[l]) }

(* The orders in which the simplices may be numbered. *)
Orderings(S) ==
    { s \in [1..Cardinality(S) -> S] : \A i, j \in DOMAIN s : i # j => s[i] # s[j] }

----------------------------------------------------------------------------
(* build_forward_affines: the affine map of one simplex.  X_inv is         *)
(* adj(X) / det(X); M = (X_inv @ Y).T, A = M[:, :2], b = M[:, 2].  A and b *)
(* are kept as numerators over den = det(X).                               *)
TriangleAffine(pix, gps, simplex) ==
    LET P0 == pix[simplex[1]]   P1 == pix[simplex[2]]   P2 == pix[simplex[3]]
        G0 == gps[simplex[1]]   G1 == gps[simplex[2]]   G2 == gps[simplex[3]]
        det == P0[1] * (P1[2] - P2[2]) - P0[2] * (P1[1] - P2[1])
             + (P1[1] * P2[2] - P2[1] * P1[2])
        \* rows of adj(X)
        r1 == <<P1[2] - P2[2], P2[2] - P0[2], P0[2] - P1[2]>>
        r2 == <<P2[1] - P1[1], P0[1] - P2[1], P1[1] - P0[1]>>
        r3 == <<P1[1] * P2[2] - P2[1] * P1[2],
                P2[1] * P0[2] - P0[1] * P2[2],
                P0[1] * P1[2] - P1[1] * P0[2]>>
        Dot(r, c) == r[1] * G0[c] + r[2] * G1[c] + r[3] * G2[c]
    IN  [verts |-> simplex,
         A |-> << <<Dot(r1, 1), Dot(r2, 1)>>, <<Dot(r1, 2), Dot(r2, 2)>> >>,
         b |-> <<Dot(r3, 1), Dot(r3, 2)>>,
         den |-> det]

(* A single fit used for every simplex instead of one map per simplex. *)
build_forward_affines_OneFit(pix, gps, tris) ==
    [i \in 1..Len(tris) |-> TriangleAffine(pix, gps, tris[1])]

build_forward_affines(pix, gps, tris) ==
    [i \in 1..Len(tris) |-> TriangleAffine(pix, gps, tris[i])]

(* PiecewiseAffineMapper.__init__, step 2: the GPS bounding box per simplex. *)
GpsBBox(gps, simplex) ==
    LET G0 == gps[simplex[1]]   G1 == gps[simplex[2]]   G2 == gps[simplex[3]]
    IN  <<Min3(G0[1], G1[1], G2[1]), Max3(G0[1], G1[1], G2[1]),
          Min3(G0[2], G1[2], G2[2]), Max3(G0[2], G1[2], G2[2])>>

(* The mapper built from one calibration set, its simplices numbered as    *)
(* the sequence tris.                                                      *)
MapperInit(pix, gps, tris) ==
    /\ pixel_pts = pix
    /\ gps_pts = gps
    /\ triangles = tris
    /\ affines = build_forward_affines(pix, gps, tris)
    /\ gps_bboxes = [i \in 1..Len(tris) |-> GpsBBox(gps, tris[i])]

----------------------------------------------------------------------------
(* delaunay_pixel.find_simplex: the simplices whose closed pixel triangle  *)
(* holds (x, y); the call returns one of them, or -1 when there is none.   *)
(* Simplex numbers are 1-based here (Python's tri_idx + 1).                *)
InPixelTriangle(x, y, simplex) ==
    LET o1 == Orient(pixel_pts[simplex[1]], pixel_pts[simplex[2]], <<x, y>>)
        o2 == Orient(pixel_pts[simplex[2]], pixel_pts[simplex[3]], <<x, y>>)
        o3 == Orient(pixel_pts[simplex[3]], pixel_pts[simplex[1]], <<x, y>>)
    IN  \/ (o1 >= 0 /\ o2 >= 0 /\ o3 >= 0)
        \/ (o1 <= 0 /\ o2 <= 0 /\ o3 <= 0)

(* Point location that misses the pixels on an edge or a vertex. *)
find_simplex_Strict(x, y) ==
    LET hits == { i \in 1..Len(triangles) :
                    LET o1 == Orient(pixel_pts[triangles[i][1]], pixel_pts[triangles[i][2]], <<x, y>>)
                        o2 == Orient(pixel_pts[triangles[i][2]], pixel_pts[triangles[i][3]], <<x, y>>)
                        o3 == Orient(pixel_pts[triangles[i][3]], pixel_pts[triangles[i][1]], <<x, y>>)
                    IN  \/ (o1 > 0 /\ o2 > 0 /\ o3 > 0)
                        \/ (o1 < 0 /\ o2 < 0 /\ o3 < 0) }
    IN  IF hits = {} THEN {-1} ELSE hits

find_simplex(x, y) ==
    LET hits == { i \in 1..Len(triangles) : InPixelTriangle(x, y, triangles[i]) }
    IN  IF hits = {} THEN {-1} ELSE hits

(* A . [x, y] + b of one affine record, as <<lat, lon, den>> with den > 0. *)
ApplyAffine(af, x, y) ==
    LET lat == af.A[1][1] * x + af.A[1][2] * y + af.b[1]
        lon == af.A[2][1] * x + af.A[2][2] * y + af.b[2]
    IN  IF af.den > 0 THEN <<lat, lon, af.den>> ELSE <<-lat, -lon, -af.den>>

(* PiecewiseAffineMapper.pixel_to_gps, find_simplex having answered tri_idx. *)
pixel_to_gps(x, y, tri_idx) ==
    IF tri_idx < 0 THEN None
    ELSE Some(ApplyAffine(affines[tri_idx], x, y))

(* warp_pixel_to_gps.py: compute_triangle_affines and                      *)
(* PixelToGPSMapper.pixel_to_gps, which builds its own affines from the    *)
(* same triangulation.                                                     *)
compute_triangle_affines(pix, gps, tris) ==
    [i \in 1..Len(tris) |-> TriangleAffine(pix, gps, tris[i])]

(* np.linalg.inv(X) raises LinAlgError only when the LU factorisation      *)
(* meets a pivot that is exactly zero in floating point.  For a singular X *)
(* rounding decides whether that happens; for any other X it never does.   *)
linalg_inv_raises(det) == IF det = 0 THEN {TRUE, FALSE} ELSE {FALSE}

(* The loop of compute_triangle_affines over delaunay.simplices, with the  *)
(* try/except around the inversion: every way the call can end.  An affine *)
(* kept for a singular X has den = 0: its entries are rounding residue.    *)
RECURSIVE AffinesLoop(_, _, _, _, _)
AffinesLoop(pix, gps, tris, i, acc) ==
    IF i > Len(tris) THEN { [exc |-> "none", affines |-> acc] }
    ELSE LET det == Orient(pix[tris[i][1]], pix[tris[i][2]], pix[tris[i][3]])
         IN  (IF TRUE \in linalg_inv_raises(det)
              THEN { [exc |-> "RuntimeError", affines |-> <<>>] } ELSE {})
             \cup
             (IF FALSE \in linalg_inv_raises(det)
              THEN AffinesLoop(pix, gps, tris, i + 1,
                               Append(acc, TriangleAffine(pix, gps, tris[i])))
              ELSE {})

warp_pixel_to_gps(x, y, tri_idx) ==
    IF tri_idx = -1 THEN None
    ELSE Some(ApplyAffine(compute_triangle_affines(pixel_pts, gps_pts, triangles)[tri_idx], x, y))

----------------------------------------------------------------------------
(* PiecewiseAffineMapper.gps_to_pixel.  A query is <<latN, lonN, d>>: the  *)
(* point (latN / d, lonN / d), d > 0.                                      *)

(* mask_lat & mask_lon for simplex i *)
BBoxHit(i, q) ==
    /\ gps_bboxes[i][1] * q[3] <= q[1] /\ q[1] <= gps_bboxes[i][2] * q[3]
    /\ gps_bboxes[i][3] * q[3] <= q[2] /\ q[2] <= gps_bboxes[i][4] * q[3]

(* The 2x2 system of simplex i: det of Mgps, and the weights alpha, beta,  *)
(* gamma as numerators aN, bN, gN over the positive denominator D.         *)
Barycentric(i, q) ==
    LET G0 == gps_pts[triangles[i][1]]
        G1 == gps_pts[triangles[i][2]]
        G2 == gps_pts[triangles[i][3]]
        m00 == G1[1] - G0[1]    m01 == G2[1] - G0[1]
        m10 == G1[2] - G0[2]    m11 == G2[2] - G0[2]
        d0 == q[1] - G0[1] * q[3]
        d1 == q[2] - G0[2] * q[3]
        det == m00 * m11 - m01 * m10
        s == IF det < 0 THEN -1 ELSE 1
        bN == s * (m11 * d0 - m01 * d1)
        gN == s * (m00 * d1 - m10 * d0)
        D == s * det * q[3]
    IN  [det |-> det, aN |-> D - bN - gN, bN |-> bN, gN |-> gN, D |-> D]

(* w < -1e-9 for the weight wN / D *)
BelowTolerance(wN, D) == wN < 0 /\ (0 - wN) > FloorDiv(D, BaryEpsInv)

(* Simplex i passes the singularity and containment tests of the loop. *)
Resolves(i, q) ==
    LET w == Barycentric(i, q)
    IN  /\ ~(Abs(w.det) < DetEps)
        /\ ~(BelowTolerance(w.aN, w.D) \/ BelowTolerance(w.bN, w.D)
                \/ BelowTolerance(w.gN, w.D))

(* The loop over bbox_hits from simplex i on: the first simplex that       *)
(* resolves the query, 0 when the loop runs out.                           *)
RECURSIVE ScanFrom(_, _)
ScanFrom(i, q) ==
    IF i > Len(triangles) THEN 0
    ELSE IF BBoxHit(i, q) /\ Resolves(i, q) THEN i
    ELSE ScanFrom(i + 1, q)

(* A recovery that pairs beta with P2 and gamma with P1. *)
RecoverPixel_Swapped(i, q) ==
    LET w == Barycentric(i, q)
        P0 == pixel_pts[triangles[i][1]]
        P1 == pixel_pts[triangles[i][2]]
        P2 == pixel_pts[triangles[i][3]]
    IN  <<w.aN * P0[1] + w.gN * P1[1] + w.bN * P2[1],
          w.aN * P0[2] + w.gN * P1[2] + w.bN * P2[2],
          w.D>>

(* x = alpha*P0 + beta*P1 + gamma*P2, as <<xN, yN, D>> *)
RecoverPixel(i, q) ==
    LET w == Barycentric(i, q)
        P0 == pixel_pts[triangles[i][1]]
        P1 == pixel_pts[triangles[i][2]]
        P2 == pixel_pts[triangles[i][3]]
    IN  <<w.aN * P0[1] + w.bN * P1[1] + w.gN * P2[1],
          w.aN * P0[2] + w.bN * P1[2] + w.gN * P2[2],
          w.D>>

gps_to_pixel(q) ==
    LET i == ScanFrom(1, q)
    IN  IF i = 0 THEN None ELSE Some(RecoverPixel(i, q))

(* app.py gps_to_pixel_strict *)
gps_to_pixel_strict(q) ==
    LET xy == gps_to_pixel(q)
    IN  IF xy.isNone THEN None
        ELSE Some(<<RoundHalfEven(xy.v[1], xy.v[3]), RoundHalfEven(xy.v[2], xy.v[3])>>)

(* app.py gps_to_pixel, step 2: d2 of calibration point i (times d^2) and  *)
(* np.argmin, the first index of the least value.                          *)
AnchorD2(i, q) ==
    LET dlat == gps_pts[i][1] * q[3] - q[1]
        dlon == gps_pts[i][2] * q[3] - q[2]
    IN  dlat * dlat + dlon * dlon

(* argmax in place of argmin *)
ArgMin_Farthest(q) ==
    CHOOSE i \in 1..Len(gps_pts) :
        /\ \A j \in 1..Len(gps_pts) : AnchorD2(i, q) >= AnchorD2(j, q)
        /\ \A j \in 1..(i - 1) : AnchorD2(j, q) < AnchorD2(i, q)

ArgMin(q) ==
    CHOOSE i \in 1..Len(gps_pts) :
        /\ \A j \in 1..Len(gps_pts) : AnchorD2(i, q) <= AnchorD2(j, q)
        /\ \A j \in 1..(i - 1) : AnchorD2(j, q) > AnchorD2(i, q)

(* app.py gps_to_pixel: exact inverse, else the nearest calibration anchor. *)
app_gps_to_pixel(q) ==
    LET xy == gps_to_pixel(q)
        idx == ArgMin(q)
    IN  IF ~xy.isNone
        THEN Some(<<RoundHalfEven(xy.v[1], xy.v[3]), RoundHalfEven(xy.v[2], xy.v[3])>>)
        ELSE Some(<<RoundHalfEven(pixel_pts[idx][1], 1), RoundHalfEven(pixel_pts[idx][2], 1)>>)

----------------------------------------------------------------------------
(* generate_directions_with_feet.py (app/ and campus_nav/): the route,     *)
(* landmark and instruction extractor.                                     *)

LANDMARK_RADIUS == 200

(* Bounds of the route model. *)
MaxRouteLen == 3

MaxBuildings == 3

DMax == 3

Dist2(a, b) == (a[1] - b[1]) * (a[1] - b[1]) + (a[2] - b[2]) * (a[2] - b[2])

(* KDTree(pts).query(p): the index of a nearest point.  Which of several   *)
(* equally near points the tree answers is not specified: any of them.     *)
tree_query(pts, p) ==
    { i \in 1..Len(pts) : \A j \in 1..Len(pts) : Dist2(pts[i], p) <= Dist2(pts[j], p) }

(* bcoords is a dict in file order: a sequence of [name, xy]. *)
Names(bc) == [i \in 1..Len(bc) |-> bc[i].name]

Pts(bc) == [i \in 1..Len(bc) |-> bc[i].xy]

Lookup(bc, nm) == bc[CHOOSE i \in 1..Len(bc) : bc[i].name = nm].xy

(* The answers the tree may give along a path: one index per route point,  *)
(* the same point always answered alike.                                   *)
RECURSIVE TreeAnswersUpTo(_, _, _)
TreeAnswersUpTo(path, bc, n) ==
    IF n = 0 THEN { <<>> }
    ELSE UNION { UNION { { Append(nb, k) :
                             k \in { c \in near :
                                       \A j \in 1..(n - 1) : path[j] = path[n] => nb[j] = c } } :
                         nb \in TreeAnswersUpTo(path, bc, n - 1) } :
                 near \in { tree_query(Pts(bc), path[n]) } }

TreeAnswers(path, bc) == TreeAnswersUpTo(path, bc, Len(path))

SeenNames(seen) == { seen[k][1] : k \in 1..Len(seen) }

(* sorted(items, key=lambda kv: kv[1]): a stable insertion sort. *)
RECURSIVE InsertByIndex(_, _)
InsertByIndex(sorted, kv) ==
    IF sorted = <<>> THEN <<kv>>
    ELSE IF sorted[Len(sorted)][2] <= kv[2] THEN Append(sorted, kv)
    ELSE Append(InsertByIndex(SubSeq(sorted, 1, Len(sorted) - 1), kv), sorted[Len(sorted)])

RECURSIVE SortedByIndex(_)
SortedByIndex(items) ==
    IF items = <<>> THEN <<>>
    ELSE InsertByIndex(SortedByIndex(SubSeq(items, 1, Len(items) - 1)), items[Len(items)])

(* A loop that overwrites seen[nm] at every visit instead of keeping the   *)
(* first one.                                                              *)
RECURSIVE LandmarkLoop_Overwrite(_, _, _, _, _)
LandmarkLoop_Overwrite(path, bc, nb, i, seen) ==
    IF i > Len(path) THEN seen
    ELSE LET idx == nb[i]
             nm  == Names(bc)[idx]
         IN  IF Dist2(path[i], Pts(bc)[idx]) <= LANDMARK_RADIUS * LANDMARK_RADIUS
             THEN LandmarkLoop_Overwrite(path, bc, nb, i + 1,
                      IF nm \in SeenNames(seen)
                      THEN [k \in 1..Len(seen) |->
                               IF seen[k][1] = nm THEN <<nm, i - 1>> ELSE seen[k]]
                      ELSE Append(seen, <<nm, i - 1>>))
             ELSE LandmarkLoop_Overwrite(path, bc, nb, i + 1, seen)

(* A loop that records the nearest building however far it is. *)
RECURSIVE LandmarkLoop_NoRadius(_, _, _, _, _)
LandmarkLoop_NoRadius(path, bc, nb, i, seen) ==
    IF i > Len(path) THEN seen
    ELSE LET nm == Names(bc)[nb[i]]
         IN  IF nm \notin SeenNames(seen)
             THEN LandmarkLoop_NoRadius(path, bc, nb, i + 1, Append(seen, <<nm, i - 1>>))
             ELSE LandmarkLoop_NoRadius(path, bc, nb, i + 1, seen)

(* A loop that leaves out a building exactly LANDMARK_RADIUS away. *)
RECURSIVE LandmarkLoop_StrictRadius(_, _, _, _, _)
LandmarkLoop_StrictRadius(path, bc, nb, i, seen) ==
    IF i > Len(path) THEN seen
    ELSE LET idx == nb[i]
             nm  == Names(bc)[idx]
         IN  IF Dist2(path[i], Pts(bc)[idx]) < LANDMARK_RADIUS * LANDMARK_RADIUS
                  /\ nm \notin SeenNames(seen)
             THEN LandmarkLoop_StrictRadius(path, bc, nb, i + 1, Append(seen, <<nm, i - 1>>))
             ELSE LandmarkLoop_StrictRadius(path, bc, nb, i + 1, seen)

(* The loop of extract_landmarks from route position i (1-based here; the  *)
(* recorded index is Python's, i - 1); seen is the dict in insertion order. *)
RECURSIVE LandmarkLoop(_, _, _, _, _)
LandmarkLoop(path, bc, nb, i, seen) ==
    IF i > Len(path) THEN seen
    ELSE LET idx == nb[i]
             nm  == Names(bc)[idx]
         IN  IF Dist2(path[i], Pts(bc)[idx]) <= LANDMARK_RADIUS * LANDMARK_RADIUS
                  /\ nm \notin SeenNames(seen)
             THEN LandmarkLoop(path, bc, nb, i + 1, Append(seen, <<nm, i - 1>>))
             ELSE LandmarkLoop(path, bc, nb, i + 1, seen)

(* extract_landmarks(path, bcoords), the tree having answered nb. *)
extract_landmarks(path, bc, nb) ==
    SortedByIndex(LandmarkLoop(path, bc, nb, 1, <<>>))

(* A direction that sends the tie |dx| = |dy| to the horizontal branch. *)
direction_TieHorizontal(dx, dy) ==
    IF Abs(dx) >= Abs(dy) /\ dx > 0 THEN "east"
    ELSE IF Abs(dx) >= Abs(dy) THEN "west"
    ELSE IF dy > 0 THEN "south"
    ELSE "north"

(* app/: the chained conditional expression. *)
direction(dx, dy) ==
    IF Abs(dx) > Abs(dy) /\ dx > 0 THEN "east"
    ELSE IF Abs(dx) > Abs(dy) THEN "west"
    ELSE IF dy > 0 THEN "south"
    ELSE "north"

(* A nested if / else that takes the horizontal branch on a tie. *)
nav_direction_TieHorizontal(dx, dy) ==
    IF Abs(dx) >= Abs(dy)
    THEN (IF dx > 0 THEN "east" ELSE "west")
    ELSE (IF dy > 0 THEN "south" ELSE "north")

(* campus_nav/: the nested if / else. *)
nav_direction(dx, dy) ==
    IF Abs(dx) > Abs(dy)
    THEN (IF dx > 0 THEN "east" ELSE "west")
    ELSE (IF dy > 0 THEN "south" ELSE "north")

(* The reference segments: two pixel points and the feet between them. *)
CALIBRATION ==
    << [a |-> <<479, 849>>,   b |-> <<2705, 705>>,  feet |-> 1617],
       [a |-> <<2706, 199>>,  b |-> <<2685, 5003>>, feet |-> 3448],
       [a |-> <<1854, 1237>>, b |-> <<1886, 1757>>, feet |-> 358],
       [a |-> <<1668, 2570>>, b |-> <<1701, 2906>>, feet |-> 240] >>

(* Real numbers are kept as enclosures [lo, hi] of integers: lengths in     *)
(* 1/HypScale pixels, factors in 1/FactorScale feet per pixel.             *)
HypScale == 8

FactorScale == 10000

RECURSIVE SqrtFloor(_, _, _)
SqrtFloor(n, lo, hi) ==
    IF lo = hi THEN lo
    ELSE LET mid == (lo + hi + 1) \div 2
         IN  IF mid * mid <= n THEN SqrtFloor(n, mid, hi) ELSE SqrtFloor(n, lo, mid - 1)

(* math.hypot(dx, dy) *)
hypot(dx, dy) ==
    LET n == (dx * dx + dy * dy) * HypScale * HypScale
        r == SqrtFloor(n, 0, 46340)
    IN  [lo |-> r, hi |-> IF r * r = n THEN r ELSE r + 1]

(* feet / math.hypot(x2 - x1, y2 - y1) *)
Ratio(seg) ==
    LET h   == hypot(seg.b[1] - seg.a[1], seg.b[2] - seg.a[2])
        num == seg.feet * HypScale * FactorScale
    IN  [lo |-> num \div h.hi, hi |-> (num + h.lo - 1) \div h.lo]

(* sum(...) over the first n segments *)
RECURSIVE SumRatios(_)
SumRatios(n) ==
    IF n = 0 THEN [lo |-> 0, hi |-> 0]
    ELSE LET s == SumRatios(n - 1)
             r == Ratio(CALIBRATION[n])
         IN  [lo |-> s.lo + r.lo, hi |-> s.hi + r.hi]

(* A factor taken as total feet over total pixel length. *)
calibrate_factor_RatioOfSums ==
    LET n    == Len(CALIBRATION)
        feet == CALIBRATION[1].feet + CALIBRATION[2].feet
                    + CALIBRATION[3].feet + CALIBRATION[4].feet
        H(i) == hypot(CALIBRATION[i].b[1] - CALIBRATION[i].a[1],
                      CALIBRATION[i].b[2] - CALIBRATION[i].a[2])
        hlo  == H(1).lo + H(2).lo + H(3).lo + H(4).lo
        hhi  == H(1).hi + H(2).hi + H(3).hi + H(4).hi
    IN  [lo |-> (feet * HypScale * FactorScale) \div hhi,
         hi |-> (feet * HypScale * FactorScale + hlo - 1) \div hlo]

(* app/ calibrate_factor: sum(feet / hypot ...) / len(CALIBRATION) *)
calibrate_factor ==
    LET n == Len(CALIBRATION)
        s == SumRatios(n)
    IN  [lo |-> s.lo \div n, hi |-> (s.hi + n - 1) \div n]

(* campus_nav/ calibrate_factor: the ratios collected in a list first. *)
RECURSIVE Factors(_)
Factors(n) == IF n = 0 THEN <<>> ELSE Append(Factors(n - 1), Ratio(CALIBRATION[n]))

RECURSIVE SumOf(_, _)
SumOf(factors, n) ==
    IF n = 0 THEN [lo |-> 0, hi |-> 0]
    ELSE LET s == SumOf(factors, n - 1)
         IN  [lo |-> s.lo + factors[n].lo, hi |-> s.hi + factors[n].hi]

nav_calibrate_factor ==
    LET factors == Factors(Len(CALIBRATION))
        s       == SumOf(factors, Len(factors))
    IN  [lo |-> s.lo \div Len(factors), hi |-> (s.hi + Len(factors) - 1) \div Len(factors)]

(* make_instructions: a line is kept as its parts; the distance text is    *)
(* represented by the squared pixel distance d2 and the unit.              *)
(* Go-lines that name the building walked from instead of the one walked to. *)
GoLines_NamesCurrent(landmarks, bc, unit) ==
    [k \in 1..(Len(landmarks) - 1) |->
        LET p1 == Lookup(bc, landmarks[k][1])
            p2 == Lookup(bc, landmarks[k + 1][1])
        IN  [kind |-> "go", dir |-> direction(p2[1] - p1[1], p2[2] - p1[2]),
             d2 |-> Dist2(p1, p2), unit |-> unit, name |-> landmarks[k][1]]]

GoLines(landmarks, bc, unit) ==
    [k \in 1..(Len(landmarks) - 1) |->
        LET p1 == Lookup(bc, landmarks[k][1])
            p2 == Lookup(bc, landmarks[k + 1][1])
        IN  [kind |-> "go", dir |-> direction(p2[1] - p1[1], p2[2] - p1[2]),
             d2 |-> Dist2(p1, p2), unit |-> unit, name |-> landmarks[k + 1][1]]]

InstructionLines(landmarks, bc, unit) ==
    IF landmarks = <<>> THEN << [kind |-> "none"] >>
    ELSE << [kind |-> "start", name |-> landmarks[1][1]] >>
         \o GoLines(landmarks, bc, unit)
         \o << [kind |-> "arrive", name |-> landmarks[Len(landmarks)][1]] >>

make_instructions(landmarks, bc) ==
    <<InstructionLines(landmarks, bc, "pixels"), InstructionLines(landmarks, bc, "feet")>>

(* campus_nav/ make_instructions: the same lines, by its own direction. *)
nav_GoLines(landmarks, bc, unit) ==
    [k \in 1..(Len(landmarks) - 1) |->
        LET p1 == Lookup(bc, landmarks[k][1])
            p2 == Lookup(bc, landmarks[k + 1][1])
        IN  [kind |-> "go", dir |-> nav_direction(p2[1] - p1[1], p2[2] - p1[2]),
             d2 |-> Dist2(p1, p2), unit |-> unit, name |-> landmarks[k + 1][1]]]

nav_InstructionLines(landmarks, bc, unit) ==
    IF landmarks = <<>> THEN << [kind |-> "none"] >>
    ELSE << [kind |-> "start", name |-> landmarks[1][1]] >>
         \o nav_GoLines(landmarks, bc, unit)
         \o << [kind |-> "arrive", name |-> landmarks[Len(landmarks)][1]] >>

nav_make_instructions(landmarks, bc) ==
    <<nav_InstructionLines(landmarks, bc, "pixels"), nav_InstructionLines(landmarks, bc, "feet")>>

----------------------------------------------------------------------------
(* The walkway graph: G = [nodes, edges], an edge <<u, v, w>> undirected.  *)

Neighbours(G, u) ==
    { e[2] : e \in { f \in G.edges : f[1] = u } } \cup { e[1] : e \in { f \in G.edges : f[2] = u } }

Weight(G, u, v) ==
    LET e == CHOOSE f \in G.edges : (f[1] = u /\ f[2] = v) \/ (f[1] = v /\ f[2] = u)
    IN  e[3]

RECURSIVE Reach(_, _)
Reach(G, S) ==
    LET T == S \cup UNION { Neighbours(G, u) : u \in S }
    IN  IF T = S THEN S ELSE Reach(G, T)

(* A test that only sees the node itself and its direct neighbours. *)
has_path_Direct(G, src, dst) == dst \in {src} \cup Neighbours(G, src)

(* nx.has_path *)
has_path(G, src, dst) == dst \in Reach(G, {src})

NodeSet(G) == { G.nodes[i] : i \in 1..Len(G.nodes) }

NodeIndex(G, v) == CHOOSE i \in 1..Len(G.nodes) : G.nodes[i] = v

(* Dijkstra's distances from src, by relaxation: d[i] is the distance of   *)
(* node G.nodes[i], -1 for "not reached".                                  *)
Relaxed(G, d, i) ==
    LET v == G.nodes[i]
        cands == { d[NodeIndex(G, u)] + Weight(G, u, v) :
                      u \in { n \in Neighbours(G, v) : d[NodeIndex(G, n)] >= 0 } }
                 \cup (IF d[i] >= 0 THEN {d[i]} ELSE {})
    IN  IF cands = {} THEN -1 ELSE SetMin(cands)

RECURSIVE RelaxOnce(_, _, _)
RelaxOnce(G, d, i) ==
    IF i = 0 THEN <<>> ELSE Append(RelaxOnce(G, d, i - 1), Relaxed(G, d, i))

RECURSIVE Relax(_, _, _)
Relax(G, d, k) == IF k = 0 THEN d ELSE Relax(G, RelaxOnce(G, d, Len(G.nodes)), k - 1)

RECURSIVE StartDistances(_, _, _)
StartDistances(G, src, i) ==
    IF i = 0 THEN <<>>
    ELSE Append(StartDistances(G, src, i - 1), IF G.nodes[i] = src THEN 0 ELSE -1)

Distances(G, src) ==
    Relax(G, StartDistances(G, src, Len(G.nodes)), Len(G.nodes))

(* The paths Dijkstra may hand back: from dst back to src along tight edges. *)
RECURSIVE PathsTo(_, _, _, _)
PathsTo(G, d, src, v) ==
    IF v = src THEN { <<src>> }
    ELSE UNION { { Append(p, v) : p \in PathsTo(G, d, src, u) } :
                 u \in { n \in Neighbours(G, v) :
                           /\ d[NodeIndex(G, n)] >= 0
                           /\ d[NodeIndex(G, n)] + Weight(G, n, v) = d[NodeIndex(G, v)] } }

(* Every simple path of G that extends p to dst. *)
RECURSIVE PathsFrom(_, _, _)
PathsFrom(G, p, dst) ==
    IF p[Len(p)] = dst THEN { p }
    ELSE UNION { PathsFrom(G, Append(p, n), dst) :
                 n \in Neighbours(G, p[Len(p)]) \ { p[i] : i \in 1..Len(p) } }

SimplePaths(G, src, dst) == PathsFrom(G, <<src>>, dst)

(* A search that hands back whichever path it finds, whatever its weight. *)
shortest_path_AnyPath(G, src, dst) == SimplePaths(G, src, dst)

(* The path searched from the destination: the arguments swapped. *)
shortest_path_Reversed(G, src, dst) == PathsTo(G, Distances(G, dst), dst, src)

(* nx.shortest_path(G, src, dst, weight="weight") *)
shortest_path(G, src, dst) == PathsTo(G, Distances(G, src), src, dst)

(* snap_buildings_to_graph.py: the node written to the mapping for a       *)
(* building at coord.                                                      *)
building_to_node(G, coord) == { G.nodes[k] : k \in tree_query(G.nodes, coord) }

(* A snap that takes the farthest node instead of the nearest. *)
snap_Farthest(G, coord) ==
    { G.nodes[k] : k \in { i \in 1..Len(G.nodes) :
          \A j \in 1..Len(G.nodes) : Dist2(G.nodes[i], coord) >= Dist2(G.nodes[j], coord) } }

(* snap: the mapping entry, looked up again in the tree of graph nodes by  *)
(* find_route.                                                             *)
snap(G, coord) ==
    UNION { { G.nodes[si] : si \in tree_query(G.nodes, m) } : m \in building_to_node(G, coord) }

(* Outcomes: exc names the Python exception raised ("" for none); nb keeps  *)
(* what the building tree answered along the path.                         *)
Raised(exc, why) ==
    [exc |-> exc, why |-> why, path |-> <<>>, landmarks |-> <<>>,
     pix_lines |-> <<>>, ft_lines |-> <<>>, nb |-> <<>>]

(* A find_route that tests only the start name against the table; an     *)
(* unknown end name then fails in the lookup.                              *)
find_route_ChecksStartOnly(G, b2n, start, end) ==
    IF start \notin DOMAIN b2n
    THEN { Raised("ValueError", "building not found") }
    ELSE IF end \notin DOMAIN b2n
    THEN { Raised("KeyError", "building not found") }
    ELSE UNION { IF ~has_path(G, G.nodes[si], G.nodes[ei])
                 THEN { Raised("RuntimeError", "no path") }
                 ELSE { [Raised("", "") EXCEPT !.path = p] :
                            p \in shortest_path(G, G.nodes[si], G.nodes[ei]) } :
                 si \in tree_query(G.nodes, b2n[start]), ei \in tree_query(G.nodes, b2n[end]) }

(* app/ find_route: the set of outcomes (exceptions, or the paths it may   *)
(* return). *)
find_route(G, b2n, start, end) ==
    IF start \notin DOMAIN b2n \/ end \notin DOMAIN b2n
    THEN { Raised("ValueError", "building not found") }
    ELSE UNION { IF ~has_path(G, G.nodes[si], G.nodes[ei])
                 THEN { Raised("RuntimeError", "no path") }
                 ELSE { [Raised("", "") EXCEPT !.path = p] :
                            p \in shortest_path(G, G.nodes[si], G.nodes[ei]) } :
                 si \in tree_query(G.nodes, b2n[start]), ei \in tree_query(G.nodes, b2n[end]) }

(* campus_nav/ find_route: no membership test, b2n[start] raises KeyError. *)
nav_find_route(G, b2n, start, end) ==
    IF start \notin DOMAIN b2n \/ end \notin DOMAIN b2n
    THEN { Raised("KeyError", "building not found") }
    ELSE UNION { IF ~has_path(G, G.nodes[si], G.nodes[ei])
                 THEN { Raised("RuntimeError", "no path") }
                 ELSE { [Raised("", "") EXCEPT !.path = p] :
                            p \in shortest_path(G, G.nodes[si], G.nodes[ei]) } :
                 si \in tree_query(G.nodes, b2n[start]), ei \in tree_query(G.nodes, b2n[end]) }

(* The steps of compute_route after find_route. *)
AfterRoute(routed, bc) ==
    UNION { IF r.exc # "" THEN {r}
            ELSE { LET lm == extract_landmarks(r.path, bc, nb)
                       lines == make_instructions(lm, bc)
                   IN  [r EXCEPT !.landmarks = lm, !.pix_lines = lines[1], !.ft_lines = lines[2],
                                 !.nb = nb] :
                   nb \in TreeAnswers(r.path, bc) } :
            r \in routed }

(* app/ compute_route: the set of outcomes. *)
compute_route(start, end) ==
    IF start = "" \/ end = ""
    THEN { Raised("ValueError", "not specified") }
    ELSE AfterRoute(find_route(world, world.b2n, start, end), bcoords)

(* The steps of campus_nav/ compute_route after find_route. *)
NavAfterRoute(routed, bc) ==
    UNION { IF r.exc # "" THEN {r}
            ELSE { LET lm == extract_landmarks(r.path, bc, nb)
                       lines == nav_make_instructions(lm, bc)
                   IN  [r EXCEPT !.landmarks = lm, !.pix_lines = lines[1], !.ft_lines = lines[2],
                                 !.nb = nb] :
                   nb \in TreeAnswers(r.path, bc) } :
            r \in routed }

(* campus_nav/ compute_route *)
nav_compute_route(start, end) ==
    NavAfterRoute(nav_find_route(world, world.b2n, start, end), bcoords)

----------------------------------------------------------------------------
(* A loop that also replaces best on an equal squared distance. *)
RECURSIVE NearestLoop_LastWins(_, _, _, _, _)
NearestLoop_LastWins(bc, x, y, i, best) ==
    IF i > Len(bc) THEN best
    ELSE LET d2 == Dist2(bc[i].xy, <<x, y>>)
         IN  IF best.isNone \/ d2 <= best.v[2]
             THEN NearestLoop_LastWins(bc, x, y, i + 1, Some(<<bc[i].name, d2>>))
             ELSE NearestLoop_LastWins(bc, x, y, i + 1, best)

(* app.py nearest_building: the loop over BCOORDS.items() in table order,  *)
(* replacing best only on a strictly smaller squared distance.             *)
RECURSIVE NearestLoop(_, _, _, _, _)
NearestLoop(bc, x, y, i, best) ==
    IF i > Len(bc) THEN best
    ELSE LET d2 == Dist2(bc[i].xy, <<x, y>>)
         IN  IF best.isNone \/ d2 < best.v[2]
             THEN NearestLoop(bc, x, y, i + 1, Some(<<bc[i].name, d2>>))
             ELSE NearestLoop(bc, x, y, i + 1, best)

nearest_building(bc, x, y) ==
    LET best == NearestLoop(bc, x, y, 1, None)
    IN  IF best.isNone THEN None ELSE Some(best.v[1])

(* gps_array - np.array([lat, lon]) written in place: the anchors shifted. *)
AfterFallback_InPlace(gps, q) ==
    [i \in 1..Len(gps) |-> <<gps[i][1] * q[3] - q[1], gps[i][2] * q[3] - q[2]>>]

(* mapper.gps_pts after the fallback of app.py gps_to_pixel: deltas is a   *)
(* new array, the anchors are only read.                                   *)
AfterFallback(gps, q) == gps

----------------------------------------------------------------------------
(* The mapper's clients: queries against the mapper built at start-up.     *)

Coords(pts, c) == { pts[i][c] : i \in 1..Len(pts) }

(* Pixel queries: a grid over and around the calibrated region, and the    *)
(* calibration pixels themselves.                                          *)
PixelQueries ==
    LET xs == { QStep * k : k \in -1..(SetMax(Coords(pixel_pts, 1)) \div QStep + 1) }
        ys == { QStep * k : k \in -1..(SetMax(Coords(pixel_pts, 2)) \div QStep + 1) }
    IN  (xs \X ys) \cup { pixel_pts[i] : i \in 1..Len(pixel_pts) }

(* GPS queries: the multiples of 1/QDen over and around the calibrated box. *)
GpsQueries ==
    LET lats == (QDen * (SetMin(Coords(gps_pts, 1)) - 1))..(QDen * (SetMax(Coords(gps_pts, 1)) + 1))
        lons == (QDen * (SetMin(Coords(gps_pts, 2)) - 1))..(QDen * (SetMax(Coords(gps_pts, 2)) + 1))
    IN  { <<a, b, QDen>> : a \in lats, b \in lons }

(* The data-model invariant of a CalibrationSet: no three GPS points on a  *)
(* line (the pixel side is a property of the bases).                       *)
WellFormed(gps) ==
    \A i, j, k \in 1..Len(gps) :
        (i < j /\ j < k) => Orient(gps[i], gps[j], gps[k]) # 0

InitMapper ==
    /\ \E base \in CalibrationBases, k \in 1..4, e \in ErrRange \X ErrRange :
          /\ WellFormed(Displace(base, k, e))
          /\ \E tris \in Orderings(Simplices(base.pix)) :
                MapperInit(base.pix, Displace(base, k, e), tris)
    /\ bcoords = <<>>
    /\ world = <<>>
    /\ call = NoCall
    /\ threads = NoThreads /\ server = ServerIdle
    /\ session = NoSession /\ overlay_file = NoFile

PixelToGps ==
    /\ call.fn = "init"
    /\ \E p \in PixelQueries : \E t \in find_simplex(p[1], p[2]) :
          call' = [fn |-> "pixel_to_gps", x |-> p[1], y |-> p[2], tri |-> t,
                   ret |-> pixel_to_gps(p[1], p[2], t)]
    /\ UNCHANGED <<mapperVars, bcoords, world, procVars>>

WarpPixelToGps ==
    /\ call.fn = "init"
    /\ \E p \in PixelQueries : \E t \in find_simplex(p[1], p[2]) :
          call' = [fn |-> "warp_pixel_to_gps", x |-> p[1], y |-> p[2], tri |-> t,
                   ret |-> warp_pixel_to_gps(p[1], p[2], t)]
    /\ UNCHANGED <<mapperVars, bcoords, world, procVars>>

GpsToPixelStrict ==
    /\ call.fn = "init"
    /\ \E q \in GpsQueries :
          call' = [fn |-> "gps_to_pixel_strict", q |-> q, ret |-> gps_to_pixel_strict(q)]
    /\ UNCHANGED <<mapperVars, bcoords, world, procVars>>

(* PiecewiseAffineMapper.gps_to_pixel, as the mapper returns it. *)
GpsToPixel ==
    /\ call.fn = "init"
    /\ \E q \in GpsQueries :
          call' = [fn |-> "mapper_gps_to_pixel", q |-> q, ret |-> gps_to_pixel(q)]
    /\ UNCHANGED <<mapperVars, bcoords, world, procVars>>

AppGpsToPixel ==
    /\ call.fn = "init"
    /\ \E q \in GpsQueries :
          call' = [fn |-> "gps_to_pixel", q |-> q, ret |-> app_gps_to_pixel(q)]
    /\ UNCHANGED <<mapperVars, bcoords, world, procVars>>

(* Arguments of compute_triangle_affines: calibration points of which     *)
(* three lie on one pixel line, with triangulations that do and do not     *)
(* hold the simplex of those three.                                        *)
TriangulationArgs ==
    LET pix == << <<0, 0>>, <<3, 3>>, <<5, 5>>, <<0, 5>> >>
        gps == << <<5, 0>>, <<2, 3>>, <<0, 5>>, <<0, 0>> >>
    IN  { [pix |-> pix, gps |-> gps, tris |-> t] :
            t \in { << <<1, 2, 4>>, <<2, 3, 4>> >>,
                    << <<1, 2, 4>>, <<1, 2, 3>> >>,
                    << <<1, 2, 3>>, <<1, 2, 4>>, <<2, 3, 4>> >> } }

(* warp_pixel_to_gps.py compute_triangle_affines(pixel_coords, gps_coords, *)
(* delaunay).                                                              *)
ComputeTriangleAffines ==
    /\ call.fn = "init"
    /\ \E a \in TriangulationArgs : \E out \in AffinesLoop(a.pix, a.gps, a.tris, 1, <<>>) :
          call' = [fn |-> "compute_triangle_affines", pix |-> a.pix, tris |-> a.tris,
                   ret |-> out]
    /\ UNCHANGED <<mapperVars, bcoords, world, procVars>>

(* piecewise_affine_inverse.py __main__, step 3b: the forward image of a   *)
(* pixel fed back to the inverse.                                          *)
RoundTrip ==
    /\ call.fn = "init"
    /\ \E p \in PixelQueries : \E t \in find_simplex(p[1], p[2]) :
          /\ t > 0
          /\ call' = [fn |-> "round_trip", x |-> p[1], y |-> p[2], tri |-> t,
                      fwd |-> pixel_to_gps(p[1], p[2], t),
                      ret |-> gps_to_pixel(pixel_to_gps(p[1], p[2], t).v)]
    /\ UNCHANGED <<mapperVars, bcoords, world, procVars>>

(* The caller takes the result; the next request starts from scratch. *)
Return ==
    /\ call.fn # "init"
    /\ call' = NoCall
    /\ UNCHANGED <<mapperVars, bcoords, world, procVars>>

NextMapper ==
    \/ ComputeTriangleAffines
    \/ PixelToGps
    \/ WarpPixelToGps
    \/ GpsToPixel
    \/ GpsToPixelStrict
    \/ AppGpsToPixel
    \/ RoundTrip
    \/ Return

Spec == InitMapper /\ [][NextMapper]_vars

----------------------------------------------------------------------------
(* The inverse near a side shared by two GPS triangles that runs along a   *)
(* line of constant latitude, queried at the resolution of the containment *)
(* tolerance.                                                              *)

(* Queries are multiples of 1 / FineDen degree: half the tolerance 1e-9. *)
FineDen == 2 * BaryEpsInv

(* How many steps off the shared side the queries go. *)
TolSpan == 4

(* Four calibration points around the origin: the simplices (1,2,3) and    *)
(* (1,2,4) share the side from point 1 to point 2, on latitude 0.          *)
SharedSidePixels == << <<0, 0>>, <<0, 1>>, <<1, 0>>, <<-1, 1>> >>

SharedSideGps == << <<0, 0>>, <<0, 1>>, <<1, 0>>, <<-1, 0>> >>

FineQueries ==
    { <<a, b, FineDen>> :
        a \in (0 - TolSpan)..TolSpan,
        b \in {0, 1, BaryEpsInv - 1, BaryEpsInv, BaryEpsInv + 1, FineDen - 1, FineDen} }

InitPrune ==
    /\ \E tris \in Orderings(Simplices(SharedSidePixels)) :
          MapperInit(SharedSidePixels, SharedSideGps, tris)
    /\ bcoords = <<>>
    /\ world = <<>>
    /\ call = NoCall
    /\ threads = NoThreads /\ server = ServerIdle
    /\ session = NoSession /\ overlay_file = NoFile

FineGpsToPixel ==
    /\ call.fn = "init"
    /\ \E q \in FineQueries :
          call' = [fn |-> "fine_gps_to_pixel", q |-> q, ret |-> gps_to_pixel(q)]
    /\ UNCHANGED <<mapperVars, bcoords, world, procVars>>

NextPrune ==
    \/ FineGpsToPixel
    \/ Return

PruneSpec == InitPrune /\ [][NextPrune]_vars

----------------------------------------------------------------------------
(* Concurrent queries: request threads of the web process, each running    *)
(* one query against the shared mapper and building table.  A thread is    *)
(* "called" with its arguments bound, may be in the "fallback" half of     *)
(* app.py gps_to_pixel, and is "done" holding its result.                  *)

NumThreads == 2

ThreadIds == 1..NumThreads

IdleThread == [pc |-> "idle"]

ThreadBuildings ==
    << [name |-> "A", xy |-> <<0, 0>>], [name |-> "B", xy |-> <<20, 10>>],
       [name |-> "C", xy |-> <<20, 10>>] >>

(* Two calibration readings and a point far outside the calibrated area. *)
ThreadGpsQueries ==
    { <<gps_pts[i][1], gps_pts[i][2], 1>> : i \in 1..2 }
        \cup { <<SetMin(Coords(gps_pts, 1)) - 2, SetMin(Coords(gps_pts, 2)) - 1, 1>> }

ThreadPixelQueries == { <<0, 0>>, <<10, 5>>, <<-5, -5>> }

InitConcurrent ==
    /\ \E base \in CalibrationBases : \E tris \in Orderings(Simplices(base.pix)) :
          MapperInit(base.pix, base.gps, tris)
    /\ bcoords = ThreadBuildings
    /\ world = <<>>
    /\ call = NoCall
    /\ threads = [t \in ThreadIds |-> IdleThread]
    /\ server = ServerIdle
    /\ session = NoSession /\ overlay_file = NoFile

QueryStart ==
    /\ \E t \in ThreadIds :
          /\ threads[t].pc = "idle"
          /\ \/ \E k \in {"pixel_to_gps", "nearest_building"}, p \in ThreadPixelQueries :
                      threads' = [threads EXCEPT ![t] =
                                 [pc |-> "called", kind |-> k, arg |-> p, ret |-> None]]
             \/ \E k \in {"gps_to_pixel_strict", "gps_to_pixel"}, q \in ThreadGpsQueries :
                   threads' = [threads EXCEPT ![t] = [pc |-> "called", kind |-> k, arg |-> q, ret |-> None]]
    /\ UNCHANGED <<mapperVars, bcoords, world, call, server, webVars>>

QueryForward ==
    /\ \E t \in ThreadIds :
          /\ threads[t].pc = "called" /\ threads[t].kind = "pixel_to_gps"
          /\ \E tri \in find_simplex(threads[t].arg[1], threads[t].arg[2]) :
                threads' = [threads EXCEPT ![t].pc = "done",
                              ![t].ret = pixel_to_gps(threads[t].arg[1], threads[t].arg[2], tri)]
    /\ UNCHANGED <<mapperVars, bcoords, world, call, server, webVars>>

QueryStrict ==
    /\ \E t \in ThreadIds :
          /\ threads[t].pc = "called" /\ threads[t].kind = "gps_to_pixel_strict"
          /\ threads' = [threads EXCEPT ![t].pc = "done",
                            ![t].ret = gps_to_pixel_strict(threads[t].arg)]
    /\ UNCHANGED <<mapperVars, bcoords, world, call, server, webVars>>

(* app.py gps_to_pixel, lines 69-71: the exact inverse and, if it          *)
(* answered, its rounding.                                                 *)
QueryInverse ==
    /\ \E t \in ThreadIds :
          /\ threads[t].pc = "called" /\ threads[t].kind = "gps_to_pixel"
          /\ LET xy == gps_to_pixel_strict(threads[t].arg)
             IN  threads' = IF xy.isNone
                            THEN [threads EXCEPT ![t].pc = "fallback"]
                            ELSE [threads EXCEPT ![t].pc = "done", ![t].ret = xy]
    /\ UNCHANGED <<mapperVars, bcoords, world, call, server, webVars>>

(* app.py gps_to_pixel, lines 74-81: the nearest anchor. *)
QueryFallback ==
    /\ \E t \in ThreadIds :
          /\ threads[t].pc = "fallback"
          /\ LET idx == ArgMin(threads[t].arg)
             IN  threads' = [threads EXCEPT ![t].pc = "done",
                               ![t].ret = Some(<<RoundHalfEven(pixel_pts[idx][1], 1),
                                                 RoundHalfEven(pixel_pts[idx][2], 1)>>)]
          /\ gps_pts' = AfterFallback(gps_pts, threads[t].arg)
    /\ UNCHANGED <<pixel_pts, triangles, affines, gps_bboxes, bcoords, world, call, server, webVars>>

QueryNearestBuilding ==
    /\ \E t \in ThreadIds :
          /\ threads[t].pc = "called" /\ threads[t].kind = "nearest_building"
          /\ threads' = [threads EXCEPT ![t].pc = "done",
                            ![t].ret = nearest_building(bcoords, threads[t].arg[1], threads[t].arg[2])]
    /\ UNCHANGED <<mapperVars, bcoords, world, call, server, webVars>>

QueryFinish ==
    /\ \E t \in ThreadIds :
          /\ threads[t].pc = "done"
          /\ threads' = [threads EXCEPT ![t] = IdleThread]
    /\ UNCHANGED <<mapperVars, bcoords, world, call, server, webVars>>

NextConcurrent ==
    \/ QueryStart
    \/ QueryForward
    \/ QueryStrict
    \/ QueryInverse
    \/ QueryFallback
    \/ QueryNearestBuilding
    \/ QueryFinish

ConcurrentSpec == InitConcurrent /\ [][NextConcurrent]_vars

----------------------------------------------------------------------------
(* Geometry the properties are stated with.  A point is <<aN, bN, d>>,     *)
(* d > 0: the point (aN / d, bN / d).                                      *)

(* Sign-carrying area of a, b and the point q, times d. *)
OrientQ(a, b, q) ==
    (b[1] - a[1]) * (q[2] - a[2] * q[3]) - (b[2] - a[2]) * (q[1] - a[1] * q[3])

(* q in the closed triangle a, b, c, which is not flat. *)
InClosedTriangle(a, b, c, q) ==
    /\ Orient(a, b, c) # 0
    /\ LET o1 == OrientQ(a, b, q)
           o2 == OrientQ(b, c, q)
           o3 == OrientQ(c, a, q)
       IN  \/ (o1 >= 0 /\ o2 >= 0 /\ o3 >= 0)
           \/ (o1 <= 0 /\ o2 <= 0 /\ o3 <= 0)

(* q in the convex hull of pts (which are not all on one line). *)
InHull(pts, q) ==
    \E i, j, k \in 1..Len(pts) : InClosedTriangle(pts[i], pts[j], pts[k], q)

(* pts[i] -> pts[j] is on a supporting line of the hull of pts. *)
OnSupportingLine(pts, i, j) ==
    /\ pts[i] # pts[j]
    /\ \/ \A k \in 1..Len(pts) : Orient(pts[i], pts[j], pts[k]) >= 0
       \/ \A k \in 1..Len(pts) : Orient(pts[i], pts[j], pts[k]) <= 0

StrictlyInHull(pts, q) ==
    /\ InHull(pts, q)
    /\ \A i, j \in 1..Len(pts) :
          OnSupportingLine(pts, i, j) => OrientQ(pts[i], pts[j], q) # 0

(* The query is exactly the GPS reading of calibration point i. *)
IsCalibrationGps(q, i) ==
    /\ q[1] = gps_pts[i][1] * q[3]
    /\ q[2] = gps_pts[i][2] * q[3]

(* The two-coordinate value v (fractions over d) is within one unit of p. *)
WithinOne(xN, yN, d, p) ==
    /\ Abs(xN - p[1] * d) <= d
    /\ Abs(yN - p[2] * d) <= d

(* r is n / d rounded to a nearest integer. *)
IsRounded(r, n, d) == 2 * Abs(n - r * d) <= d

IsRaise(r) == "exc" \in DOMAIN r

----------------------------------------------------------------------------
(* C1: the strict inverse of the GPS reading of every calibration point is *)
(* a pixel, and that pixel is within one unit per coordinate of the        *)
(* calibration point's own pixel.                                          *)
C1_InverseOfCalibrationPoint ==
    (call.fn = "gps_to_pixel_strict") =>
        \A i \in 1..Len(gps_pts) :
            IsCalibrationGps(call.q, i) =>
                /\ ~call.ret.isNone
                /\ WithinOne(call.ret.v[1], call.ret.v[2], 1, pixel_pts[i])

(* C2: for a pixel strictly inside the convex hull of the calibration      *)
(* pixels, forward is not null and the inverse of the forward image is a   *)
(* pixel within one pixel of the query.                                    *)
C2_InverseOfForward ==
    /\ (call.fn = "pixel_to_gps" /\ StrictlyInHull(pixel_pts, <<call.x, call.y, 1>>))
          => ~call.ret.isNone
    /\ (call.fn = "round_trip" /\ StrictlyInHull(pixel_pts, <<call.x, call.y, 1>>))
          => /\ ~call.fwd.isNone
             /\ ~call.ret.isNone
             /\ WithinOne(call.ret.v[1], call.ret.v[2], call.ret.v[3], <<call.x, call.y>>)

(* C3: the inverse is null only for a GPS point outside the convex hull of *)
(* the calibration GPS points (checked for the points strictly inside the  *)
(* hull, where "inside" is beyond dispute).                                *)
C3_NullOnlyOutsideHull ==
    (call.fn = "gps_to_pixel_strict" /\ call.ret.isNone)
        => ~StrictlyInHull(gps_pts, call.q)

(* C4: app.py gps_to_pixel always returns a pixel and never raises: the    *)
(* rounded exact inverse when there is one, and otherwise the pixel of a   *)
(* calibration point whose squared GPS distance to the query is least.     *)
GpsDist2(g, q) ==
    (g[1] * q[3] - q[1]) * (g[1] * q[3] - q[1]) + (g[2] * q[3] - q[2]) * (g[2] * q[3] - q[2])

C4_InverseOrNearest ==
    (call.fn = "gps_to_pixel") =>
        LET inv == gps_to_pixel(call.q)
        IN  /\ ~IsRaise(call.ret)
            /\ ~call.ret.isNone
            /\ ~inv.isNone =>
                  /\ IsRounded(call.ret.v[1], inv.v[1], inv.v[3])
                  /\ IsRounded(call.ret.v[2], inv.v[2], inv.v[3])
            /\ inv.isNone =>
                  \E i \in 1..Len(gps_pts) :
                      /\ call.ret.v = pixel_pts[i]
                      /\ \A j \in 1..Len(gps_pts) :
                            GpsDist2(gps_pts[i], call.q) <= GpsDist2(gps_pts[j], call.q)

(* C4 witness: the fallback was taken, and the anchor is not the first     *)
(* calibration point.                                                      *)
C4_Witness ==
    /\ call.fn = "gps_to_pixel"
    /\ gps_to_pixel(call.q).isNone
    /\ call.ret.v # pixel_pts[1]
    /\ call.ret.v \in { pixel_pts[i] : i \in 1..Len(pixel_pts) }

(* C5: forward of a calibration pixel is exactly its GPS reading, whichever *)
(* incident simplex point location answered.                               *)
C5_ForwardOfCalibrationPoint ==
    (call.fn = "pixel_to_gps") =>
        \A i \in 1..Len(pixel_pts) :
            (<<call.x, call.y>> = pixel_pts[i]) =>
                /\ ~call.ret.isNone
                /\ call.ret.v[1] = gps_pts[i][1] * call.ret.v[3]
                /\ call.ret.v[2] = gps_pts[i][2] * call.ret.v[3]

(* C5 witness: a calibration pixel shared by several simplices, answered   *)
(* in a simplex that is not the first one holding it.                      *)
C5_Witness ==
    /\ call.fn = "pixel_to_gps"
    /\ \E i \in 1..Len(pixel_pts) : <<call.x, call.y>> = pixel_pts[i]
    /\ ~call.ret.isNone
    /\ \E t \in 1..Len(triangles) :
          t < call.tri /\ InPixelTriangle(call.x, call.y, triangles[t])

(* C6: forward (both mappers) is null exactly when no simplex holds the    *)
(* pixel; otherwise it is the value at the pixel of the affine map that    *)
(* takes the vertices of the simplex holding it to their GPS readings.  A  *)
(* query outside the region is a null result, not an exception.            *)
NoTriangleHolds(x, y) ==
    \A i \in 1..Len(triangles) :
        ~InClosedTriangle(pixel_pts[triangles[i][1]], pixel_pts[triangles[i][2]],
                          pixel_pts[triangles[i][3]], <<x, y, 1>>)

(* v = <<latN, lonN, d>> is the interpolation at (x, y) of the GPS         *)
(* readings at the vertices of simplex t.                                  *)
IsInterpolation(v, t, x, y) ==
    LET P0 == pixel_pts[triangles[t][1]]   G0 == gps_pts[triangles[t][1]]
        P1 == pixel_pts[triangles[t][2]]   G1 == gps_pts[triangles[t][2]]
        P2 == pixel_pts[triangles[t][3]]   G2 == gps_pts[triangles[t][3]]
        w0 == Orient(P1, P2, <<x, y>>)
        w1 == Orient(P2, P0, <<x, y>>)
        w2 == Orient(P0, P1, <<x, y>>)
        W  == Orient(P0, P1, P2)
    IN  /\ v[1] * W = (w0 * G0[1] + w1 * G1[1] + w2 * G2[1]) * v[3]
        /\ v[2] * W = (w0 * G0[2] + w1 * G1[2] + w2 * G2[2]) * v[3]

C6_ForwardNullIffOutside ==
    (call.fn \in {"pixel_to_gps", "warp_pixel_to_gps"}) =>
        /\ ~IsRaise(call.ret)
        /\ call.ret.isNone <=> NoTriangleHolds(call.x, call.y)
        /\ ~call.ret.isNone =>
              /\ call.tri \in 1..Len(triangles)
              /\ InClosedTriangle(pixel_pts[triangles[call.tri][1]],
                                  pixel_pts[triangles[call.tri][2]],
                                  pixel_pts[triangles[call.tri][3]],
                                  <<call.x, call.y, 1>>)
              /\ IsInterpolation(call.ret.v, call.tri, call.x, call.y)

(* C6 witness: a query outside every simplex, answered null. *)
C6_Witness ==
    /\ call.fn \in {"pixel_to_gps", "warp_pixel_to_gps"}
    /\ call.ret.isNone
    /\ NoTriangleHolds(call.x, call.y)

----------------------------------------------------------------------------
(* The route extractor and its inputs.                                     *)

BuildingNames == <<"A", "B", "C", "D", "E">>

(* The end-to-end example: three nodes joined by two edges of weight 10. *)
ExampleWorld ==
    [nodes |-> << <<0, 0>>, <<10, 0>>, <<10, 10>> >>,
     edges |-> { << <<0, 0>>, <<10, 0>>, 10 >>, << <<10, 0>>, <<10, 10>>, 10 >> },
     b2n   |-> [n \in {"A", "B"} |-> IF n = "A" THEN <<0, 0>> ELSE <<10, 10>>]]

ExampleBuildings ==
    << [name |-> "A", xy |-> <<0, 0>>], [name |-> "B", xy |-> <<10, 10>>] >>

(* A campus: a square block of walkways, a spur and a detached node; edge  *)
(* weights are the pixel lengths.                                          *)
CampusGraph ==
    [nodes |-> << <<0, 0>>, <<100, 0>>, <<100, 100>>, <<0, 100>>, <<300, 0>>, <<300, 300>> >>,
     edges |-> { << <<0, 0>>, <<100, 0>>, 100 >>, << <<100, 0>>, <<100, 100>>, 100 >>,
                 << <<100, 100>>, <<0, 100>>, 100 >>, << <<0, 100>>, <<0, 0>>, 100 >>,
                 << <<100, 0>>, <<300, 0>>, 200 >> }]

(* Where a building may stand, and the points a route may visit. *)
BuildingSites == { <<0, 0>>, <<300, 0>>, <<100, 100>>, <<300, 300>> }

RoutePoints == { <<0, 0>>, <<100, 0>>, <<300, 0>>, <<100, 100>> }

(* building_coordinates_all.json: the first n names, each at a site. *)
BuildingTables ==
    UNION { { [i \in 1..n |-> [name |-> BuildingNames[i], xy |-> f[i]]] :
                f \in [1..n -> BuildingSites] } : n \in 1..MaxBuildings }

(* snap_buildings_to_graph.py: the loop over the table, each building's     *)
(* entry assigned a node the tree answers as nearest.                      *)
RECURSIVE Snaps(_, _)
Snaps(G, bc) ==
    IF bc = <<>> THEN { <<>> }
    ELSE LET last == bc[Len(bc)]
         IN  { [n \in (DOMAIN m) \cup {last.name} |->
                    IF n = last.name THEN G.nodes[k] ELSE m[n]] :
                 m \in Snaps(G, SubSeq(bc, 1, Len(bc) - 1)),
                 k \in tree_query(G.nodes, last.xy) }

Routes == UNION { [1..n -> RoutePoints] : n \in 1..MaxRouteLen }

RequestNames ==
    {"", "Nowhere"} \cup { BuildingNames[i] : i \in 1..MaxBuildings }

(* A table with a building that stands off the graph: A snaps to the node  *)
(* (100, 100), where B stands.                                             *)
OffNodeBuildings ==
    << [name |-> "A", xy |-> <<90, 90>>], [name |-> "B", xy |-> <<100, 100>>],
       [name |-> "C", xy |-> <<300, 0>>] >>

InitRoute ==
    /\ pixel_pts = <<>> /\ gps_pts = <<>> /\ triangles = <<>>
    /\ affines = <<>> /\ gps_bboxes = <<>>
    /\ call = NoCall
    /\ threads = NoThreads /\ server = ServerIdle
    /\ session = NoSession /\ overlay_file = NoFile
    /\ \/ (world = ExampleWorld /\ bcoords = ExampleBuildings)
       \/ \E b2n \in Snaps(CampusGraph, OffNodeBuildings) :
             /\ bcoords = OffNodeBuildings
             /\ world = [nodes |-> CampusGraph.nodes, edges |-> CampusGraph.edges, b2n |-> b2n]
       \/ \E bc \in BuildingTables : \E b2n \in Snaps(CampusGraph, bc) :
             /\ bcoords = bc
             /\ world = [nodes |-> CampusGraph.nodes, edges |-> CampusGraph.edges, b2n |-> b2n]

ComputeRoute ==
    /\ call.fn = "init"
    /\ \E start \in RequestNames, end \in RequestNames :
          \E r \in compute_route(start, end) :
              call' = [fn |-> "compute_route", start |-> start, end |-> end, ret |-> r]
    /\ UNCHANGED <<mapperVars, bcoords, world, procVars>>

NavComputeRoute ==
    /\ call.fn = "init"
    /\ \E start \in RequestNames, end \in RequestNames :
          \E r \in nav_compute_route(start, end) :
              call' = [fn |-> "nav_compute_route", start |-> start, end |-> end, ret |-> r]
    /\ UNCHANGED <<mapperVars, bcoords, world, procVars>>

ExtractLandmarks ==
    /\ call.fn = "init"
    /\ \E path \in Routes : \E nb \in TreeAnswers(path, bcoords) :
          call' = [fn |-> "extract_landmarks", path |-> path, nb |-> nb,
                   ret |-> extract_landmarks(path, bcoords, nb)]
    /\ UNCHANGED <<mapperVars, bcoords, world, procVars>>

Direction ==
    /\ call.fn = "init"
    /\ \E dx \in (0 - DMax)..DMax, dy \in (0 - DMax)..DMax :
          call' = [fn |-> "direction", dx |-> dx, dy |-> dy, ret |-> direction(dx, dy)]
    /\ UNCHANGED <<mapperVars, bcoords, world, procVars>>

NavDirection ==
    /\ call.fn = "init"
    /\ \E dx \in (0 - DMax)..DMax, dy \in (0 - DMax)..DMax :
          call' = [fn |-> "nav_direction", dx |-> dx, dy |-> dy, ret |-> nav_direction(dx, dy)]
    /\ UNCHANGED <<mapperVars, bcoords, world, procVars>>

(* The landmark lists extract_landmarks can hand on: distinct buildings of  *)
(* the table, in route order.                                              *)
LandmarkLists(bc) ==
    UNION { { [k \in 1..n |-> <<bc[f[k]].name, k - 1>>] :
                f \in { g \in [1..n -> 1..Len(bc)] :
                          \A i, j \in 1..n : (i # j) => g[i] # g[j] } } :
            n \in 0..Len(bc) }

MakeInstructions ==
    /\ call.fn = "init"
    /\ \E lm \in LandmarkLists(bcoords) :
          call' = [fn |-> "make_instructions", landmarks |-> lm,
                   ret |-> make_instructions(lm, bcoords)]
    /\ UNCHANGED <<mapperVars, bcoords, world, procVars>>

NavMakeInstructions ==
    /\ call.fn = "init"
    /\ \E lm \in LandmarkLists(bcoords) :
          call' = [fn |-> "nav_make_instructions", landmarks |-> lm,
                   ret |-> nav_make_instructions(lm, bcoords)]
    /\ UNCHANGED <<mapperVars, bcoords, world, procVars>>

(* Building coordinates off the walkways: between two nodes, and beside   *)
(* one.                                                                    *)
OffNodeSites == { <<200, 0>>, <<90, 90>> }

Snap ==
    /\ call.fn = "init"
    /\ \E coord \in BuildingSites \cup OffNodeSites : \E n \in snap(world, coord) :
          call' = [fn |-> "snap", coord |-> coord, ret |-> n]
    /\ UNCHANGED <<mapperVars, bcoords, world, procVars>>

CalibrateFactor ==
    /\ call.fn = "init"
    /\ call' = [fn |-> "calibrate_factor", ret |-> calibrate_factor]
    /\ UNCHANGED <<mapperVars, bcoords, world, procVars>>

NavCalibrateFactor ==
    /\ call.fn = "init"
    /\ call' = [fn |-> "nav_calibrate_factor", ret |-> nav_calibrate_factor]
    /\ UNCHANGED <<mapperVars, bcoords, world, procVars>>

(* app.py nearest_building of a pixel, against the loaded table. *)
NearestBuilding ==
    /\ call.fn = "init"
    /\ \E p \in RoutePoints \cup OffNodeSites :
          call' = [fn |-> "nearest_building", x |-> p[1], y |-> p[2],
                   ret |-> nearest_building(bcoords, p[1], p[2])]
    /\ UNCHANGED <<mapperVars, bcoords, world, procVars>>

NextRoute ==
    \/ NearestBuilding
    \/ CalibrateFactor
    \/ NavCalibrateFactor
    \/ Snap
    \/ MakeInstructions
    \/ NavMakeInstructions
    \/ ComputeRoute
    \/ NavComputeRoute
    \/ Direction
    \/ NavDirection
    \/ Return

RouteSpec == InitRoute /\ [][NextRoute]_vars

(* extract_landmarks called alone, over every short path and every answer  *)
(* of the building tree.                                                   *)
NextLandmark ==
    \/ ExtractLandmarks
    \/ Return

LandmarkSpec == InitRoute /\ [][NextLandmark]_vars

----------------------------------------------------------------------------
(* The route request handler of app.py (index, POST): the names are        *)
(* resolved, compute_route runs, then the overlay is drawn and the feet    *)
(* lines are polished.  server.events logs, for the request in hand, the   *)
(* calls made; server.loads counts the load_data calls of the process.     *)

MaxLoads == 2

(* A campus table for the web process: C stands on the detached node. *)
ServerBuildings ==
    << [name |-> "A", xy |-> <<0, 0>>], [name |-> "B", xy |-> <<300, 0>>],
       [name |-> "C", xy |-> <<300, 300>>] >>

InitServer ==
    /\ pixel_pts = <<>> /\ gps_pts = <<>> /\ triangles = <<>>
    /\ affines = <<>> /\ gps_bboxes = <<>>
    /\ call = NoCall
    /\ threads = NoThreads /\ server = ServerIdle
    /\ session = NoSession /\ overlay_file = NoFile
    /\ \/ (world = ExampleWorld /\ bcoords = ExampleBuildings)
       \/ \E b2n \in Snaps(CampusGraph, ServerBuildings) :
             /\ bcoords = ServerBuildings
             /\ world = [nodes |-> CampusGraph.nodes, edges |-> CampusGraph.edges, b2n |-> b2n]

(* A handler that goes on to draw whatever compute_route did. *)
StepAfterCompute_DrawAlways(r) == "draw"

(* index, lines 234-237: an exception of compute_route leaves the handler. *)
StepAfterCompute(r) == IF r.exc = "" THEN "draw" ELSE "failed"

Logged(e) == Append(server.events, e)

(* index, lines 202-226: the form is read and the two names resolved; ""   *)
(* stands for a name that matched no building.                             *)
Receive ==
    /\ server.pc = "idle"
    /\ \E s, e \in (DOMAIN world.b2n) \cup {""} :
       \E err \in {"", "Current location unavailable."} :
          /\ (err # "") => (s = "")
          /\ server' = [server EXCEPT !.pc = "matched", !.start = s, !.end = e,
                                      !.error = err, !.events = <<>>]
    /\ call' = NoCall
    /\ UNCHANGED <<mapperVars, bcoords, world, threads, webVars>>

(* index, lines 228-230: no route is computed for an error or a missing name. *)
Reject ==
    /\ server.pc = "matched"
    /\ server.error # "" \/ server.start = "" \/ server.end = ""
    /\ server' = [server EXCEPT !.pc = "render",
                                !.error = IF server.error # "" THEN server.error
                                          ELSE "Could not match"]
    /\ UNCHANGED <<mapperVars, bcoords, world, call, threads, webVars>>

(* index, line 234, and compute_route, lines 112-113. *)
CallComputeRoute ==
    /\ server.pc = "matched"
    /\ server.error = "" /\ server.start # "" /\ server.end # ""
    /\ server' = [server EXCEPT !.pc = "loading", !.events = Logged("compute_route")]
    /\ UNCHANGED <<mapperVars, bcoords, world, call, threads, webVars>>

(* compute_route, line 114: the graph and both tables are read from disk. *)
LoadData ==
    /\ server.pc = "loading"
    /\ server.loads < MaxLoads
    /\ server' = [server EXCEPT !.pc = "routing", !.loads = server.loads + 1,
                                !.events = Logged("load_data")]
    /\ UNCHANGED <<mapperVars, bcoords, world, call, threads, webVars>>

(* compute_route, lines 115-119. *)
FinishComputeRoute ==
    /\ server.pc = "routing"
    /\ \E r \in compute_route(server.start, server.end) :
          /\ call' = [fn |-> "compute_route", start |-> server.start, end |-> server.end,
                      ret |-> r]
          /\ server' = [server EXCEPT !.pc = StepAfterCompute(r),
                           !.events = Logged(IF r.exc = "" THEN "compute_route returned"
                                             ELSE "compute_route raised")]
    /\ UNCHANGED <<mapperVars, bcoords, world, threads, webVars>>

(* index, lines 237-241 *)
DrawOverlay ==
    /\ server.pc = "draw"
    /\ server' = [server EXCEPT !.pc = "polish", !.events = Logged("draw_overlay")]
    /\ UNCHANGED <<mapperVars, bcoords, world, call, threads, webVars>>

(* index, line 243 *)
Polish ==
    /\ server.pc = "polish"
    /\ server' = [server EXCEPT !.pc = "render", !.events = Logged("polish_with_ollama")]
    /\ UNCHANGED <<mapperVars, bcoords, world, call, threads, webVars>>

(* index, lines 248-258: the page is rendered; or the exception has ended  *)
(* the request.                                                            *)
Respond ==
    /\ server.pc \in {"render", "failed"}
    /\ server' = [server EXCEPT !.pc = "idle"]
    /\ UNCHANGED <<mapperVars, bcoords, world, call, threads, webVars>>

NextServer ==
    \/ Receive
    \/ Reject
    \/ CallComputeRoute
    \/ LoadData
    \/ FinishComputeRoute
    \/ DrawOverlay
    \/ Polish
    \/ Respond

ServerSpec == InitServer /\ [][NextServer]_vars

----------------------------------------------------------------------------
(* One browser session against the web process: /update_location,          *)
(* /get_location and the route form with or without "use current           *)
(* location".  A JSON value is None (null or absent) or Some(number).      *)

(* Coordinates a client may post, in micro-degrees: on the calibrated area *)
(* and far off it. *)
JsonCoords == {0, 2, -5}

JsonValues == {None} \cup { Some(n) : n \in JsonCoords }

(* Texts typed into the form: building names, and a text no building       *)
(* matches with a score of 60 or more. *)
FormTexts == {"A", "B", "Nowhere"}

(* An update that keeps the first fix of the session. *)
update_location_KeepsFirst(sess, lat, lon) ==
    IF ~lat.isNone /\ ~lon.isNone /\ sess.gps.isNone
    THEN [sess EXCEPT !.gps = Some([lat |-> lat.v, lon |-> lon.v])]
    ELSE sess

(* app.py update_location, lines 275-278: the session after the request. *)
update_location(sess, lat, lon) ==
    IF ~lat.isNone /\ ~lon.isNone
    THEN [sess EXCEPT !.gps = Some([lat |-> lat.v, lon |-> lon.v])]
    ELSE sess

(* The stored fix as a mapper query. *)
FixQuery(gps) == <<gps.v.lat, gps.v.lon, 1>>

(* app.py get_location: the JSON answer, None for x = y = null. *)
get_location(sess) ==
    IF sess.gps.isNone THEN None
    ELSE app_gps_to_pixel(FixQuery(sess.gps))

(* app.py fuzzy_building: the best match when it scores 60 or more. *)
fuzzy_building(text) ==
    IF \E i \in 1..Len(bcoords) : bcoords[i].name = text THEN Some(text) ELSE None

(* app.py index, lines 219-223: the pixel is tested and the nearest        *)
(* building looked up. *)
StartFromPixel(xy) ==
    IF xy.isNone
    THEN [error |-> "You appear to be off campus.", xy |-> None, start_building |-> None]
    ELSE [error |-> "", xy |-> xy,
          start_building |-> nearest_building(bcoords, xy.v[1], xy.v[2])]

(* A conversion of the stored fix that gives up when the strict inverse    *)
(* finds no triangle.                                                      *)
LocatedPixel_StrictOnly(sess) ==
    { gps_to_pixel_strict(q) : q \in { FixQuery(sess.gps) } }

(* app.py index, lines 216-218: the strict inverse of the stored fix, and  *)
(* gps_to_pixel when that is None (the one value, as a singleton).         *)
LocatedPixel(sess) ==
    UNION { { IF strict.isNone THEN app_gps_to_pixel(q) ELSE strict :
                strict \in { gps_to_pixel_strict(q) } } :
            q \in { FixQuery(sess.gps) } }

(* app.py index, lines 209-223: the start building from the stored fix     *)
(* (the one outcome, as a singleton).                                      *)
UseCurrentStart(sess) ==
    IF sess.gps.isNone
    THEN { [error |-> "Current location unavailable.", xy |-> None, start_building |-> None] }
    ELSE { StartFromPixel(xy) : xy \in LocatedPixel(sess) }

(* app.py index, lines 225-226: the start building from the form. *)
TypedStart(a) == [error |-> "", xy |-> None, start_building |-> fuzzy_building(a)]

(* generate_directions_with_feet.py draw_overlay: what the written image   *)
(* shows. *)
draw_overlay(path, landmarks) == Some([path |-> path, landmarks |-> landmarks])

InitWeb ==
    /\ \E base \in CalibrationBases : \E tris \in Orderings(Simplices(base.pix)) :
          MapperInit(base.pix, base.gps, tris)
    /\ bcoords = ThreadBuildings
    /\ \E b2n \in Snaps(CampusGraph, ThreadBuildings) :
          world = [nodes |-> CampusGraph.nodes, edges |-> CampusGraph.edges, b2n |-> b2n]
    /\ call = NoCall
    /\ threads = NoThreads /\ server = ServerIdle
    /\ session = NoSession /\ overlay_file = NoFile

UpdateLocation ==
    /\ call.fn = "init"
    /\ \E lat \in JsonValues, lon \in JsonValues :
          /\ session' = update_location(session, lat, lon)
          /\ call' = [fn |-> "update_location", lat |-> lat, lon |-> lon, ret |-> "OK"]
    /\ UNCHANGED <<mapperVars, bcoords, world, threads, server, overlay_file>>

GetLocation ==
    /\ call.fn = "init"
    /\ call' = [fn |-> "get_location", ret |-> get_location(session)]
    /\ UNCHANGED <<mapperVars, bcoords, world, procVars>>

(* app.py index, lines 228-230: the error of the request, "" for none. *)
RequestError(found, end_building) ==
    IF found.error # "" THEN found.error
    ELSE IF found.start_building.isNone \/ end_building.isNone THEN "Could not match"
    ELSE ""

(* app.py index for a POST: the whole handler. *)
Index ==
    /\ call.fn = "init"
    /\ \E use_current \in BOOLEAN, a \in FormTexts, b \in FormTexts :
       \E end_building \in { fuzzy_building(b) } :
       \E found \in (IF use_current THEN UseCurrentStart(session) ELSE { TypedStart(a) }) :
       \E error \in { RequestError(found, end_building) } :
       \E req \in { [fn |-> "index", use_current |-> use_current, start |-> a, end |-> b,
                     error |-> error, xy |-> found.xy,
                     start_building |-> found.start_building, route |-> None] } :
          IF error # ""
          THEN call' = req /\ overlay_file' = overlay_file
          ELSE \E start_name \in { found.start_building.v }, end_name \in { end_building.v } :
               \E r \in compute_route(start_name, end_name) :
                  /\ call' = [req EXCEPT !.route = Some(r)]
                  /\ overlay_file' = IF r.exc = "" THEN draw_overlay(r.path, r.landmarks)
                                     ELSE overlay_file
    /\ UNCHANGED <<mapperVars, bcoords, world, threads, server, session>>

NextWeb ==
    \/ UpdateLocation
    \/ GetLocation
    \/ Index
    \/ Return

WebSpec == InitWeb /\ [][NextWeb]_vars

----------------------------------------------------------------------------
(* Route requests handled at the same time (app.run serves each request on *)
(* its own thread).  Every handler writes the one file route_overlay.png;  *)
(* the page it returns makes the browser fetch /route_overlay.png.  A      *)
(* thread stands for one requester: its handler has computed the route     *)
(* ("draw"), has written the overlay and answered ("responded"), and the   *)
(* requester has fetched the image ("fetched").                            *)

(* The forms posted: a route, the route back, a building the graph does    *)
(* not reach, and a name with no building.                                 *)
RouteRequests == { <<"A", "B">>, <<"B", "A">>, <<"A", "C">>, <<"A", "Nowhere">> }

InitOverlay ==
    /\ pixel_pts = <<>> /\ gps_pts = <<>> /\ triangles = <<>>
    /\ affines = <<>> /\ gps_bboxes = <<>>
    /\ bcoords = ServerBuildings
    /\ \E b2n \in Snaps(CampusGraph, ServerBuildings) :
          world = [nodes |-> CampusGraph.nodes, edges |-> CampusGraph.edges, b2n |-> b2n]
    /\ call = NoCall
    /\ threads = [t \in ThreadIds |-> IdleThread]
    /\ server = ServerIdle
    /\ session = NoSession /\ overlay_file = NoFile

(* index, lines 202-235: the form is read and compute_route returns or     *)
(* raises. *)
RequestRoute ==
    /\ \E t \in ThreadIds : \E req \in RouteRequests :
          /\ threads[t].pc = "idle"
          /\ \E r \in compute_route(req[1], req[2]) :
                threads' = [threads EXCEPT ![t] =
                               [pc |-> IF r.exc = "" THEN "draw" ELSE "failed",
                                req |-> req, route |-> r, image |-> None]]
    /\ UNCHANGED <<mapperVars, bcoords, world, call, server, webVars>>

(* index, lines 237-258: draw_overlay writes the file, the page is sent. *)
WriteOverlay ==
    /\ \E t \in ThreadIds :
          /\ threads[t].pc = "draw"
          /\ overlay_file' = draw_overlay(threads[t].route.path, threads[t].route.landmarks)
          /\ threads' = [threads EXCEPT ![t].pc = "responded"]
    /\ UNCHANGED <<mapperVars, bcoords, world, call, server, session>>

(* overlay(): the requester's browser fetches /route_overlay.png. *)
ReadOverlay ==
    /\ \E t \in ThreadIds :
          /\ threads[t].pc = "responded"
          /\ threads' = [threads EXCEPT ![t].pc = "fetched", ![t].image = overlay_file]
    /\ UNCHANGED <<mapperVars, bcoords, world, call, server, webVars>>

(* The requester is done, or its request ended with the exception. *)
CloseRequest ==
    /\ \E t \in ThreadIds :
          /\ threads[t].pc \in {"fetched", "failed"}
          /\ threads' = [threads EXCEPT ![t] = IdleThread]
    /\ UNCHANGED <<mapperVars, bcoords, world, call, server, webVars>>

NextOverlay ==
    \/ RequestRoute
    \/ WriteOverlay
    \/ ReadOverlay
    \/ CloseRequest

OverlaySpec == InitOverlay /\ [][NextOverlay]_vars

----------------------------------------------------------------------------
(* C7: direction (both implementations) is east iff |dx| > |dy| and        *)
(* dx > 0, west iff |dx| > |dy| and dx <= 0, south iff |dx| <= |dy| and    *)
(* dy > 0, north iff |dx| <= |dy| and dy <= 0; a tie is never east or west. *)
C7_DirectionRule ==
    (call.fn \in {"direction", "nav_direction"}) =>
        LET adx == IF call.dx < 0 THEN 0 - call.dx ELSE call.dx
            ady == IF call.dy < 0 THEN 0 - call.dy ELSE call.dy
        IN  /\ call.ret = "east"  <=> (adx > ady /\ call.dx > 0)
            /\ call.ret = "west"  <=> (adx > ady /\ call.dx <= 0)
            /\ call.ret = "south" <=> (adx <= ady /\ call.dy > 0)
            /\ call.ret = "north" <=> (adx <= ady /\ call.dy <= 0)
            /\ (adx = ady) => call.ret \in {"south", "north"}

(* C7 witness: a tie with dx > 0, answered south. *)
C7_Witness ==
    /\ call.fn = "direction"
    /\ call.dx > 0 /\ call.dx = call.dy
    /\ call.ret = "south"

(* The 1-based route positions within the radius of building k. *)
WithinRadius(path, bc, k) ==
    { i \in 1..Len(path) : Dist2(path[i], bc[k].xy) <= LANDMARK_RADIUS * LANDMARK_RADIUS }

(* The 1-based route positions where the tree answered building k and k is *)
(* within the radius.                                                      *)
NearestWithinRadius(path, bc, nb, k) ==
    { i \in 1..Len(path) :
        nb[i] = k /\ Dist2(path[i], bc[k].xy) <= LANDMARK_RADIUS * LANDMARK_RADIUS }

LandmarksOf(lm, nm) == { j \in 1..Len(lm) : lm[j][1] = nm }

UniqueAndAscending(lm) ==
    /\ \A i, j \in 1..Len(lm) : (i # j) => lm[i][1] # lm[j][1]
    /\ \A i, j \in 1..Len(lm) : (i < j) => lm[i][2] < lm[j][2]

(* C8, as stated: no name twice, ascending route indices, and a building   *)
(* the route is within the radius of at two indices has exactly one        *)
(* landmark, at the earliest of them.                                      *)
C8_Original ==
    (call.fn = "extract_landmarks") =>
        /\ UniqueAndAscending(call.ret)
        /\ \A k \in 1..Len(bcoords) :
              Cardinality(WithinRadius(call.path, bcoords, k)) >= 2 =>
                  /\ Cardinality(LandmarksOf(call.ret, bcoords[k].name)) = 1
                  /\ \A j \in LandmarksOf(call.ret, bcoords[k].name) :
                        call.ret[j][2] + 1 = SetMin(WithinRadius(call.path, bcoords, k))

(* C8, amended: no name twice, ascending route indices, and a building     *)
(* that is the nearest building, within the radius, at two indices has     *)
(* exactly one landmark, at the earliest of them.                          *)
C8_DedupKeepsEarliest ==
    (call.fn = "extract_landmarks") =>
        /\ UniqueAndAscending(call.ret)
        /\ \A k \in 1..Len(bcoords) :
              \A S \in { NearestWithinRadius(call.path, bcoords, call.nb, k) } :
                  Cardinality(S) >= 2 =>
                      /\ Cardinality(LandmarksOf(call.ret, bcoords[k].name)) = 1
                      /\ \A j \in LandmarksOf(call.ret, bcoords[k].name) :
                            call.ret[j][2] + 1 = SetMin(S)

(* C8 witness: a building nearest and within the radius at two positions   *)
(* that are not adjacent, another landmark recorded between them.          *)
C8_Witness ==
    /\ call.fn = "extract_landmarks"
    /\ Len(call.ret) >= 2
    /\ \E k \in 1..Len(bcoords) :
          /\ {1, 3} \subseteq NearestWithinRadius(call.path, bcoords, call.nb, k)
          /\ 2 \notin NearestWithinRadius(call.path, bcoords, call.nb, k)

(* C9, as stated: the index of a landmark is the first route position      *)
(* within the radius of its building.                                      *)
C9_Original ==
    (call.fn = "extract_landmarks") =>
        \A j \in 1..Len(call.ret) : \A k \in 1..Len(bcoords) :
            (bcoords[k].name = call.ret[j][1]) =>
                /\ WithinRadius(call.path, bcoords, k) # {}
                /\ call.ret[j][2] + 1 = SetMin(WithinRadius(call.path, bcoords, k))

(* C9, amended: the index of a landmark is the first route position at     *)
(* which its building is the nearest building and within the radius.       *)
C9_FirstNearestWithinRadius ==
    (call.fn = "extract_landmarks") =>
        \A j \in 1..Len(call.ret) : \A k \in 1..Len(bcoords) :
            (bcoords[k].name = call.ret[j][1]) =>
                \A S \in { NearestWithinRadius(call.path, bcoords, call.nb, k) } :
                    /\ S # {}
                    /\ call.ret[j][2] + 1 = SetMin(S)

(* C9 witness: a landmark whose building was within the radius of an       *)
(* earlier route point that had another building as its nearest.           *)
C9_Witness ==
    /\ call.fn = "extract_landmarks"
    /\ \E j \in 1..Len(call.ret) : \E k \in 1..Len(bcoords) :
          /\ bcoords[k].name = call.ret[j][1]
          /\ SetMin(WithinRadius(call.path, bcoords, k)) < call.ret[j][2] + 1
          /\ Dist2(call.path[1], bcoords[call.nb[1]].xy) < Dist2(call.path[1], bcoords[k].xy)

IsExampleRequest ==
    /\ world = ExampleWorld /\ bcoords = ExampleBuildings
    /\ call.fn = "compute_route" /\ call.start = "A" /\ call.end = "B"

ExampleRoute == << <<0, 0>>, <<10, 0>>, <<10, 10>> >>

----------------------------------------------------------------------------
(* The mean of the four feet / pixel-length ratios, written out. *)
MeanOfRatios ==
    LET r == [i \in 1..4 |-> Ratio(CALIBRATION[i])]
    IN  [lo |-> (r[1].lo + r[2].lo + r[3].lo + r[4].lo) \div 4,
         hi |-> (r[1].hi + r[2].hi + r[3].hi + r[4].hi + 3) \div 4]

(* v is within one thousandth of m thousandths. *)
ApproxThousandths(v, m) ==
    /\ v.lo * 1000 > (m - 1) * FactorScale
    /\ v.hi * 1000 < (m + 1) * FactorScale

IsCalibrateCall == call.fn \in {"calibrate_factor", "nav_calibrate_factor"}

(* C11, as stated: calibrate_factor is the mean of the four ratios and     *)
(* that mean is approximately 0.742 feet per pixel.                        *)
C11_Original ==
    IsCalibrateCall =>
        /\ call.ret = MeanOfRatios
        /\ ApproxThousandths(call.ret, 742)

(* C11, amended: calibrate_factor (both implementations) is the mean of    *)
(* the four feet / Euclidean-pixel-length ratios, and that mean is         *)
(* approximately 0.710 feet per pixel.                                     *)
C11_MeanOfRatios ==
    IsCalibrateCall =>
        /\ call.ret = MeanOfRatios
        /\ ApproxThousandths(call.ret, 710)

(* C11 witness: the factor computed, enclosed more tightly than the        *)
(* thousandth it is compared at.                                           *)
C11_Witness ==
    /\ call.fn = "calibrate_factor"
    /\ call.ret.lo <= call.ret.hi
    /\ (call.ret.hi - call.ret.lo) * 1000 < FactorScale

----------------------------------------------------------------------------
(* The shape of the two line sequences for a landmark list lm. *)
InstructionsShape(lm, pix, ft) ==
    LET n == Len(lm)
    IN  /\ Len(pix) = Len(ft)
        /\ (n = 0) => (pix = << [kind |-> "none"] >> /\ ft = << [kind |-> "none"] >>)
        /\ (n >= 1) =>
              /\ Len(pix) = n + 1
              /\ \A lines \in {pix, ft} :
                    /\ lines[1] = [kind |-> "start", name |-> lm[1][1]]
                    /\ lines[n + 1] = [kind |-> "arrive", name |-> lm[n][1]]
                    /\ \A k \in 1..(n - 1) :
                          /\ lines[k + 1].kind = "go"
                          /\ lines[k + 1].name = lm[k + 1][1]
              /\ \A k \in 1..(n + 1) :
                    /\ pix[k].kind = ft[k].kind
                    /\ pix[k].name = ft[k].name
                    /\ (pix[k].kind = "go") => pix[k].dir = ft[k].dir

(* C12: make_instructions (both implementations) returns two sequences of  *)
(* equal length: one "No landmarks found." line each for no landmarks;     *)
(* for n >= 1 landmarks n + 1 lines each - start at the first, one go-line *)
(* per consecutive pair naming its second building, arrive at the last -   *)
(* and corresponding lines agree on direction and building name.           *)
C12_InstructionLines ==
    /\ (call.fn \in {"make_instructions", "nav_make_instructions"}) =>
            InstructionsShape(call.landmarks, call.ret[1], call.ret[2])
    /\ (call.fn \in {"compute_route", "nav_compute_route"} /\ call.ret.exc = "") =>
            InstructionsShape(call.ret.landmarks, call.ret.pix_lines, call.ret.ft_lines)

(* C12 witness: three landmarks turned into four lines each. *)
C12_Witness ==
    /\ call.fn = "make_instructions"
    /\ Len(call.landmarks) = 3
    /\ Len(call.ret[1]) = 4 /\ Len(call.ret[2]) = 4
    /\ call.ret[1][2].kind = "go" /\ call.ret[1][3].kind = "go"

----------------------------------------------------------------------------
RECURSIVE PathWeight(_, _)
PathWeight(G, p) ==
    IF Len(p) <= 1 THEN 0
    ELSE PathWeight(G, SubSeq(p, 1, Len(p) - 1)) + Weight(G, p[Len(p) - 1], p[Len(p)])

(* The nodes snap may answer for a building name. *)
SnappedNodes(nm) ==
    { world.nodes[k] : k \in tree_query(world.nodes, world.b2n[nm]) }

IsRouteCall == call.fn \in {"compute_route", "nav_compute_route"}

(* C13: a route returned by find_route starts at the snapped start node,   *)
(* ends at the snapped end node, joins consecutive nodes by edges of the   *)
(* graph, and no path between the two nodes has a smaller total weight.    *)
C13_RouteIsShortest ==
    (IsRouteCall /\ call.ret.exc = "") =>
        LET p == call.ret.path
        IN  /\ Len(p) >= 1
            /\ p[1] \in SnappedNodes(call.start)
            /\ p[Len(p)] \in SnappedNodes(call.end)
            /\ \A i \in 1..(Len(p) - 1) : p[i + 1] \in Neighbours(world, p[i])
            /\ \A q \in SimplePaths(world, p[1], p[Len(p)]) :
                  PathWeight(world, p) <= PathWeight(world, q)

(* C13 witness: a route of three nodes returned although a heavier path    *)
(* joins the same two nodes.                                               *)
C13_Witness ==
    /\ call.fn = "compute_route" /\ call.ret.exc = ""
    /\ Len(call.ret.path) >= 3
    /\ \E q \in SimplePaths(world, call.ret.path[1], call.ret.path[Len(call.ret.path)]) :
          PathWeight(world, q) > PathWeight(world, call.ret.path)

----------------------------------------------------------------------------
(* The error kinds as the two packages raise them. *)
IsUnknownBuildingError(fn, r) ==
    IF fn = "compute_route"
    THEN r.exc = "ValueError" /\ r.why = "building not found"
    ELSE r.exc = "KeyError"

IsNoRouteError(r) == r.exc = "RuntimeError"

IsInvalidRequestError(r) == r.exc = "ValueError" /\ r.why = "not specified"

ReturnsNothing(r) ==
    /\ r.path = <<>> /\ r.landmarks = <<>>
    /\ r.pix_lines = <<>> /\ r.ft_lines = <<>>

NameUnknown == call.start \notin DOMAIN world.b2n \/ call.end \notin DOMAIN world.b2n

(* C14, as stated: compute_route fails with UnknownBuildingError whenever  *)
(* the start or the end name is not in the table, returning nothing.       *)
C14_Original ==
    (IsRouteCall /\ NameUnknown) =>
        /\ IsUnknownBuildingError(call.fn, call.ret)
        /\ ReturnsNothing(call.ret)

(* C14, amended: compute_route fails with UnknownBuildingError, returning  *)
(* nothing, whenever the start or the end name is not in the table - in    *)
(* app/ provided neither name is empty, in campus_nav/ for any names.      *)
C14_UnknownBuilding ==
    (/\ IsRouteCall /\ NameUnknown
     /\ (call.fn = "compute_route") => (call.start # "" /\ call.end # "")) =>
        /\ IsUnknownBuildingError(call.fn, call.ret)
        /\ ReturnsNothing(call.ret)

(* C14 witness: a known start and an unknown, non-empty end in app/. *)
C14_Witness ==
    /\ call.fn = "compute_route"
    /\ call.start \in DOMAIN world.b2n
    /\ call.end # "" /\ call.end \notin DOMAIN world.b2n
    /\ call.ret.exc = "ValueError"

(* Two names are known and no path joins the nodes they snap to. *)
KnownAndDisconnected ==
    /\ call.start \in DOMAIN world.b2n /\ call.end \in DOMAIN world.b2n
    /\ \E u \in SnappedNodes(call.start), v \in SnappedNodes(call.end) :
          SimplePaths(world, u, v) = {}

(* C15: compute_route (both implementations) fails with NoRouteError       *)
(* exactly when both names are known and their snapped nodes lie in        *)
(* different components; connected nodes, the same node included, never    *)
(* give NoRouteError.                                                      *)
C15_NoRouteIffDisconnected ==
    IsRouteCall => (IsNoRouteError(call.ret) <=> KnownAndDisconnected)

(* C15 witness: two known buildings on nodes no path joins, refused. *)
C15_Witness ==
    /\ IsRouteCall /\ KnownAndDisconnected /\ IsNoRouteError(call.ret)

(* The connected side of C15 at its edge: two different buildings snapped  *)
(* to one node, answered with the one-node route.                          *)
SameNodeRouted ==
    /\ IsRouteCall
    /\ call.start # call.end
    /\ call.ret.exc = "" /\ Len(call.ret.path) = 1

(* C16: compute_route (both implementations) fails with                    *)
(* InvalidRequestError whenever start or end is empty, ahead of the other  *)
(* two errors.                                                             *)
C16_EmptyNameIsInvalidRequest ==
    (IsRouteCall /\ (call.start = "" \/ call.end = "")) =>
        IsInvalidRequestError(call.ret)

----------------------------------------------------------------------------
NearestNodeTo(n, coord) ==
    /\ n \in NodeSet(world)
    /\ \A v \in NodeSet(world) : Dist2(n, coord) <= Dist2(v, coord)

(* C20: snap returns a graph node whose distance to the building's         *)
(* coordinate is minimal over all nodes of the graph; a route starts and   *)
(* ends at such nodes.                                                     *)
C20_SnapIsNearest ==
    /\ (call.fn = "snap") => NearestNodeTo(call.ret, call.coord)
    /\ (IsRouteCall /\ call.ret.exc = "") =>
          /\ NearestNodeTo(call.ret.path[1], Lookup(bcoords, call.start))
          /\ NearestNodeTo(call.ret.path[Len(call.ret.path)], Lookup(bcoords, call.end))

(* C20 witness: a building off the walkways, equally far from two nodes,   *)
(* snapped to one of them.                                                 *)
C20_Witness ==
    /\ call.fn = "snap"
    /\ call.coord \notin NodeSet(world)
    /\ \E v \in NodeSet(world) :
          v # call.ret /\ Dist2(v, call.coord) = Dist2(call.ret, call.coord)

----------------------------------------------------------------------------
(* What a query returns when it runs with no other query in progress. *)
AloneResults(kind, arg) ==
    CASE kind = "pixel_to_gps" ->
            { pixel_to_gps(arg[1], arg[2], tri) : tri \in find_simplex(arg[1], arg[2]) }
      [] kind = "gps_to_pixel_strict" -> { gps_to_pixel_strict(arg) }
      [] kind = "gps_to_pixel" -> { app_gps_to_pixel(arg) }
      [] kind = "nearest_building" -> { nearest_building(bcoords, arg[1], arg[2]) }

ResultsAsAlone ==
    \A t \in DOMAIN threads :
        (threads[t].pc = "done") => threads[t].ret \in AloneResults(threads[t].kind, threads[t].arg)

(* C17: no step of a query changes the calibration points, triangles,      *)
(* affine maps, GPS boxes or the building table, and every query, however  *)
(* interleaved with others, returns what it returns when running alone.    *)
C17_QueriesLeaveMapper ==
    /\ [][mapperVars' = mapperVars /\ bcoords' = bcoords]_vars
    /\ []ResultsAsAlone

(* C17 witness: a query finished while another thread is half-way through  *)
(* the inverse-or-nearest query, between the exact inverse and the         *)
(* fallback.                                                               *)
C17_Witness ==
    /\ DOMAIN threads # {}
    /\ \E t, u \in DOMAIN threads :
          /\ t # u
          /\ threads[t].pc = "fallback"
          /\ threads[u].pc = "done" /\ threads[u].kind = "gps_to_pixel_strict"

----------------------------------------------------------------------------
(* C18: the graph and the building tables are loaded at most once per      *)
(* process, however many route requests are handled.                       *)
C18_LoadedAtMostOnce == server.loads <= 1

EventAt(e) == { i \in 1..Len(server.events) : server.events[i] = e }

(* C19: for the request in hand, the overlay is drawn only after           *)
(* compute_route has returned, polishing comes only after the drawing,     *)
(* neither happens when compute_route is not called or fails, and between  *)
(* the call of compute_route and its end nothing is drawn or polished.     *)
C19_CollaboratorsAfterCore ==
    /\ \A i \in EventAt("draw_overlay") :
          \E j \in EventAt("compute_route returned") : j < i
    /\ \A i \in EventAt("polish_with_ollama") :
          \E j \in EventAt("draw_overlay") : j < i
    /\ (EventAt("compute_route") = {} \/ EventAt("compute_route raised") # {}) =>
          (EventAt("draw_overlay") = {} /\ EventAt("polish_with_ollama") = {})
    /\ \A c \in EventAt("compute_route") :
       \A i \in EventAt("draw_overlay") \cup EventAt("polish_with_ollama") :
          (i > c) => \E j \in EventAt("compute_route returned") : c < j /\ j < i

(* C19 witness: a request handled to the end. *)
C19_Witness ==
    server.events = << "compute_route", "load_data", "compute_route returned",
                       "draw_overlay", "polish_with_ollama" >>

(* C19: the failing side - compute_route raised and the request ended. *)
RouteFailedAndEnded ==
    /\ server.pc = "idle"
    /\ server.events = << "compute_route", "load_data", "compute_route raised" >>

----------------------------------------------------------------------------
(* Building k of the table is nearest to the call's pixel, and no earlier  *)
(* building is as near.                                                    *)
FirstNearest(k) ==
    LET p == <<call.x, call.y>>
    IN  /\ \A j \in 1..Len(bcoords) : Dist2(bcoords[k].xy, p) <= Dist2(bcoords[j].xy, p)
        /\ \A j \in 1..(k - 1) : Dist2(bcoords[j].xy, p) > Dist2(bcoords[k].xy, p)

(* C21: nearest_building returns a building of least squared pixel         *)
(* distance over the whole table, the first in table order among ties.     *)
C21_NearestBuildingFirstOfTies ==
    (call.fn = "nearest_building") =>
        /\ ~call.ret.isNone
        /\ \E k \in 1..Len(bcoords) : bcoords[k].name = call.ret.v /\ FirstNearest(k)

(* C21 witness: the answer is not the first building of the table and a    *)
(* later building is exactly as near.                                      *)
C21_Witness ==
    /\ call.fn = "nearest_building"
    /\ \E k \in 2..Len(bcoords) : \E j \in (k + 1)..Len(bcoords) :
          /\ bcoords[k].name = call.ret.v
          /\ Dist2(bcoords[j].xy, <<call.x, call.y>>) = Dist2(bcoords[k].xy, <<call.x, call.y>>)

----------------------------------------------------------------------------
(* Simplex i of the call's triangulation has collinear pixel vertices: its *)
(* vertex matrix X is singular.                                            *)
DegenerateSimplex(i) ==
    Orient(call.pix[call.tris[i][1]], call.pix[call.tris[i][2]],
           call.pix[call.tris[i][3]]) = 0

(* C22: whenever some triangle handed to the construction of the affines   *)
(* has a singular vertex matrix, the construction ends with the error and  *)
(* yields no affines.                                                      *)
C22_DegenerateFailsConstruction ==
    (/\ call.fn = "compute_triangle_affines"
     /\ \E i \in 1..Len(call.tris) : DegenerateSimplex(i))
        => (call.ret.exc # "none" /\ call.ret.affines = <<>>)

----------------------------------------------------------------------------
(* The landmark list holds building k at route position i (1-based). *)
RecordedAt(k, i) ==
    \E j \in 1..Len(call.ret) : call.ret[j] = <<bcoords[k].name, i - 1>>

(* The route positions (1-based) at which the landmark list holds          *)
(* building k.                                                             *)
RecordedPositions(k) ==
    { call.ret[j][2] + 1 : j \in LandmarksOf(call.ret, bcoords[k].name) }

(* Nothing is recorded at route position i. *)
NothingRecordedAt(i) == \A j \in 1..Len(call.ret) : call.ret[j][2] # i - 1

(* The building answered for route position i is farther than the radius,  *)
(* or was answered within the radius at an earlier position.               *)
NearestFarOrRecorded(i) ==
    \/ Dist2(call.path[i], bcoords[call.nb[i]].xy) > LANDMARK_RADIUS * LANDMARK_RADIUS
    \/ \E h \in 1..(i - 1) :
          /\ call.nb[h] = call.nb[i]
          /\ Dist2(call.path[h], bcoords[call.nb[i]].xy) <= LANDMARK_RADIUS * LANDMARK_RADIUS

(* C23: a building is recorded at a route position exactly when that is    *)
(* the first position where it is the nearest building at a distance of at *)
(* most 200; a position whose nearest building is farther or recorded      *)
(* earlier records nothing, whatever else is within 200.                   *)
C23_RecordedIffFirstNearest ==
    (call.fn = "extract_landmarks") =>
        /\ \A k \in 1..Len(bcoords) :
              \A S \in { NearestWithinRadius(call.path, bcoords, call.nb, k) } :
                  RecordedPositions(k) = { i \in S : \A h \in S : i <= h }
        /\ \A i \in 1..Len(call.path) : NearestFarOrRecorded(i) => NothingRecordedAt(i)

(* C23 witness: a building recorded at a distance of exactly 200, and a    *)
(* later position that records nothing because its nearest building was    *)
(* recorded before.                                                        *)
C23_Witness ==
    /\ call.fn = "extract_landmarks"
    /\ \E k \in 1..Len(bcoords) : \E i \in 1..Len(call.path) :
          /\ RecordedAt(k, i)
          /\ Dist2(call.path[i], bcoords[k].xy) = LANDMARK_RADIUS * LANDMARK_RADIUS
    /\ \E i \in 2..Len(call.path) :
          /\ i \in WithinRadius(call.path, bcoords, call.nb[i])
          /\ NearestFarOrRecorded(i) /\ NothingRecordedAt(i)

(* A position that records nothing, its nearest building recorded before,  *)
(* while a strictly farther building that is nowhere in the list is within *)
(* 200 of it.                                                              *)
UnrecordedThoughWithinRadius ==
    /\ call.fn = "extract_landmarks"
    /\ \E i \in 2..Len(call.path) : \E k \in 1..Len(bcoords) :
          /\ NearestFarOrRecorded(i) /\ NothingRecordedAt(i)
          /\ i \in WithinRadius(call.path, bcoords, k)
          /\ Dist2(call.path[i], bcoords[k].xy) > Dist2(call.path[i], bcoords[call.nb[i]].xy)
          /\ LandmarksOf(call.ret, bcoords[k].name) = {}

----------------------------------------------------------------------------
(* The barycentric weights of the query q in the GPS triangle of simplex   *)
(* i, by areas: the weight of a vertex is the area of q with the opposite  *)
(* side over the area of the triangle.  Numerators over den > 0.           *)
AreaWeights(i, q) ==
    LET G0 == gps_pts[triangles[i][1]]
        G1 == gps_pts[triangles[i][2]]
        G2 == gps_pts[triangles[i][3]]
        T == Orient(G0, G1, G2)
        s == IF T < 0 THEN -1 ELSE 1
    IN  [alpha |-> s * OrientQ(G1, G2, q), beta |-> s * OrientQ(G2, G0, q),
         gamma |-> s * OrientQ(G0, G1, q), den |-> s * T * q[3], area2 |-> s * T]

(* w >= -1e-9 for the weight wN / den *)
AtLeastMinusEps(wN, den) == wN >= 0 \/ (0 - wN) <= den \div BaryEpsInv

(* q within the extent of the GPS vertices of simplex i, per coordinate. *)
InVertexExtent(i, q) ==
    \A c \in 1..2 :
        /\ \E v \in 1..3 : gps_pts[triangles[i][v]][c] * q[3] <= q[c]
        /\ \E v \in 1..3 : gps_pts[triangles[i][v]][c] * q[3] >= q[c]

(* Simplex i passes the bounding-box, non-singularity and containment      *)
(* tests for q.                                                            *)
PassesTests(i, q) ==
    LET w == AreaWeights(i, q)
    IN  /\ InVertexExtent(i, q)
        /\ w.area2 >= DetEps
        /\ AtLeastMinusEps(w.alpha, w.den)
        /\ AtLeastMinusEps(w.beta, w.den)
        /\ AtLeastMinusEps(w.gamma, w.den)

(* The pixel p = <<xN, yN, d>> is the combination of the pixel vertices of *)
(* simplex i with the weights w.                                           *)
IsCombination(p, i, w) ==
    LET P0 == pixel_pts[triangles[i][1]]
        P1 == pixel_pts[triangles[i][2]]
        P2 == pixel_pts[triangles[i][3]]
    IN  \A c \in 1..2 :
            p[c] * w.den = (w.alpha * P0[c] + w.beta * P1[c] + w.gamma * P2[c]) * p[3]

(* C24: a pixel returned by the inverse is the barycentric combination of  *)
(* the pixel vertices of the lowest-index triangle that passes the         *)
(* bounding-box, non-singularity and containment tests, with the weights   *)
(* of the query in that triangle's GPS vertices; the weights sum to 1 and  *)
(* each is at least -1e-9.                                                 *)
C24_CombinationOfFirstPassing ==
    (call.fn = "mapper_gps_to_pixel" /\ ~call.ret.isNone) =>
        \E i \in 1..Len(triangles) :
            LET w == AreaWeights(i, call.q)
            IN  /\ PassesTests(i, call.q)
                /\ \A j \in 1..(i - 1) : ~PassesTests(j, call.q)
                /\ IsCombination(call.ret.v, i, w)
                /\ w.alpha + w.beta + w.gamma = w.den
                /\ AtLeastMinusEps(w.alpha, w.den)
                /\ AtLeastMinusEps(w.beta, w.den)
                /\ AtLeastMinusEps(w.gamma, w.den)

(* C24 witness: a pixel returned from the second or a later triangle,      *)
(* strictly inside it, an earlier triangle having passed the bounding box  *)
(* and failed containment.                                                 *)
C24_Witness ==
    /\ call.fn = "mapper_gps_to_pixel" /\ ~call.ret.isNone
    /\ \E i \in 2..Len(triangles) :
          /\ PassesTests(i, call.q)
          /\ \A j \in 1..(i - 1) : ~PassesTests(j, call.q)
          /\ \E j \in 1..(i - 1) : InVertexExtent(j, call.q)
          /\ AreaWeights(i, call.q).alpha > 0
          /\ AreaWeights(i, call.q).beta > 0
          /\ AreaWeights(i, call.q).gamma > 0

----------------------------------------------------------------------------
(* The scan of gps_to_pixel over every simplex, the bounding-box mask left *)
(* out: the first simplex from i on that passes the singularity and        *)
(* containment tests.                                                      *)
RECURSIVE ScanAllFrom(_, _)
ScanAllFrom(i, q) ==
    IF i > Len(triangles) THEN 0
    ELSE IF Resolves(i, q) THEN i
    ELSE ScanAllFrom(i + 1, q)

UnprunedInverse(q) ==
    LET i == ScanAllFrom(1, q)
    IN  IF i = 0 THEN None ELSE Some(RecoverPixel(i, q))

(* The GPS triangle of simplex i holds q with non-negative weights. *)
HoldsNonNegative(i, q) ==
    LET w == Barycentric(i, q)
    IN  w.det # 0 /\ w.aN >= 0 /\ w.bN >= 0 /\ w.gN >= 0

(* C25: a triangle that holds the query with non-negative weights has a    *)
(* bounding box that holds it, and for a query inside some triangle the    *)
(* inverse returns what the scan without the bounding-box prune returns.   *)
C25_PruneKeepsAnswer ==
    (call.fn = "fine_gps_to_pixel") =>
        /\ \A i \in 1..Len(triangles) :
              HoldsNonNegative(i, call.q) => BBoxHit(i, call.q)
        /\ (\E i \in 1..Len(triangles) : HoldsNonNegative(i, call.q))
              => call.ret = UnprunedInverse(call.q)

(* The first half of C25 alone. *)
NonNegativeImpliesBBox ==
    (call.fn = "fine_gps_to_pixel") =>
        \A i \in 1..Len(triangles) : HoldsNonNegative(i, call.q) => BBoxHit(i, call.q)

----------------------------------------------------------------------------
(* C26: in a successful compute_route whose landmark list is not empty the *)
(* first landmark is the start building and the last is the end building.  *)
C26_LandmarksRunStartToEnd ==
    (/\ call.fn = "compute_route" /\ call.ret.exc = ""
     /\ call.ret.landmarks # <<>>)
        => /\ call.ret.landmarks[1][1] = call.start
           /\ call.ret.landmarks[Len(call.ret.landmarks)][1] = call.end

(* The same for the tables in which no two buildings share a pixel. *)
C26_WithoutSharedSites ==
    (/\ call.fn = "compute_route" /\ call.ret.exc = ""
     /\ call.ret.landmarks # <<>>
     /\ \A i, j \in 1..Len(bcoords) : (i # j) => bcoords[i].xy # bcoords[j].xy)
        => /\ call.ret.landmarks[1][1] = call.start
           /\ call.ret.landmarks[Len(call.ret.landmarks)][1] = call.end

----------------------------------------------------------------------------
(* What one request does to the stored fix: an update with both fields     *)
(* stores exactly them, anything else leaves the session as it was.        *)
SessionStep ==
    /\ (call'.fn = "update_location" /\ ~call'.lat.isNone /\ ~call'.lon.isNone)
          => session'.gps = Some([lat |-> call'.lat.v, lon |-> call'.lon.v])
    /\ (call'.fn = "update_location" /\ (call'.lat.isNone \/ call'.lon.isNone))
          => session' = session
    /\ (call'.fn \in {"get_location", "index", "init"}) => session' = session

GetLocationNullIffNoFix ==
    (call.fn = "get_location") => (call.ret.isNone <=> session.gps.isNone)

(* C27: the stored fix is absent at first and is always the (lat, lon) of  *)
(* the latest /update_location that carried both; an update missing one of *)
(* them, /get_location and a route request leave it as it is; and          *)
(* /get_location answers null coordinates exactly when no fix is stored.   *)
C27_SessionFix ==
    /\ session = NoSession
    /\ [][SessionStep]_vars
    /\ []GetLocationNullIffNoFix

(* C27 witness: an update without lat arrives when a fix with another lon  *)
(* is stored, and the stored fix stays.                                    *)
C27_Witness ==
    /\ call.fn = "update_location"
    /\ call.lat.isNone /\ ~call.lon.isNone
    /\ ~session.gps.isNone
    /\ session.gps.v.lon # call.lon.v

(* A fix is stored and /get_location answers with a pixel. *)
GetLocationWithFix ==
    call.fn = "get_location" /\ ~session.gps.isNone /\ ~call.ret.isNone

(* C28: a route request with "use current location" never reports "You     *)
(* appear to be off campus."; with a fix stored the strict inverse, else   *)
(* the fallback, gives a pixel and the start is nearest_building of that   *)
(* pixel; the only location error is "Current location unavailable.",      *)
(* reported exactly when no fix is stored.                                 *)
C28_CurrentLocationStart ==
    (call.fn = "index" /\ call.use_current) =>
        /\ call.error # "You appear to be off campus."
        /\ (call.error = "Current location unavailable.") <=> session.gps.isNone
        /\ ~session.gps.isNone =>
              LET q == FixQuery(session.gps)
                  strict == gps_to_pixel_strict(q)
              IN  /\ ~call.xy.isNone
                  /\ call.xy = IF strict.isNone THEN app_gps_to_pixel(q) ELSE strict
                  /\ call.start_building = nearest_building(bcoords, call.xy.v[1], call.xy.v[2])
                  /\ ~call.start_building.isNone

(* C28 witness: the stored fix is outside every triangle, the fallback     *)
(* gave the pixel, and the route was computed from the nearest building.   *)
C28_Witness ==
    /\ call.fn = "index" /\ call.use_current
    /\ ~session.gps.isNone
    /\ gps_to_pixel_strict(FixQuery(session.gps)).isNone
    /\ call.error = ""
    /\ ~call.route.isNone

----------------------------------------------------------------------------
(* C29: the overlay a requester fetches shows the route of its own         *)
(* request, however the writes of draw_overlay and the reads of the        *)
(* overlay are interleaved.                                                *)
C29_OverlayIsOwnRoute ==
    \A t \in ThreadIds :
        (threads[t].pc = "fetched") =>
            threads[t].image = draw_overlay(threads[t].route.path, threads[t].route.landmarks)

----------------------------------------------------------------------------
(* C30: the chained conditional of app/ and the nested if / else of        *)
(* campus_nav/ give the same direction for every pair (dx, dy).            *)
C30_DirectionsAgree ==
    /\ (call.fn = "direction") => call.ret = nav_direction(call.dx, call.dy)
    /\ (call.fn = "nav_direction") => call.ret = direction(call.dx, call.dy)

(* C30 witness: the campus_nav/ direction of a tie with dx < 0 and dy < 0, *)
(* answered north as app/ answers it.                                      *)
C30_Witness ==
    /\ call.fn = "nav_direction"
    /\ call.dx < 0 /\ call.dx = call.dy
    /\ call.ret = "north"
    /\ direction(call.dx, call.dy) = "north"

====
